---- MODULE Spec2Model ----
(***************************************************************************)
(* The Bitcoin / MarsCoin atomic swap coordinator (swap-coordinator.js):   *)
(* the swap record, the clock, and the operations initiateSwap,            *)
(* verifySwapFunding, completeSwap and handleSwapTimeout.  The chain       *)
(* clients and the HTLC transaction builders are the environment: every    *)
(* reply they can give is an input of the operation that calls them.  An   *)
(* operation that awaits takes one step per await: between two steps of a  *)
(* call the clock may go on and other calls on the record may run.         *)
(***************************************************************************)
EXTENDS Integers, Sequences, FiniteSets, Bags, TLC

VARIABLES
    clock,      \* Date.now(), in milliseconds
    swap,       \* the swap record the coordinator's operations are called on
    call,       \* the last operation called on the record and what it did
    returned,   \* what the calls made so far gave back, as the claims need it
    pending,    \* the calls in progress on the record, each suspended in an await
    config,     \* the configuration the config module holds
    activeSwaps \* the swaps the command line interface keeps, by swap id

vars == <<clock, swap, call, returned, pending, config, activeSwaps>>

----------------------------------------------------------------------------
(* Bounds of the model *)

MaxD == 1           \* largest timeoutDuration, in seconds
MaxNegD == 1        \* timeoutDuration goes down to -MaxNegD
MaxTime == 3        \* the clock stops after this many seconds
MaxUtxos == 2       \* longest UTXO list a chain client returns
MaxConf == 1        \* largest confirmation count of an entry
BtcAmount == 2      \* params.btcAmount
MrsAmount == 3      \* params.marscoinAmount
MaxPending == 2     \* most calls in progress on the record at a time
MaxSwaps == 2       \* most swaps the command line interface stores
TickMs == 1000      \* one step of the clock, in milliseconds

(* Constants of the program *)

MsPerSecond == 1000
DefaultConfirmations == 1
StubMarscoinOffset == 3600
StubBitcoinOffset == 7200

----------------------------------------------------------------------------
(* Values *)

\* a field that is null or undefined is the empty sequence, a set field <<v>>
Null == << >>
Some(v) == <<v>>

\* Math.floor(Date.now() / 1000)
NowSeconds(ms) == ms \div MsPerSecond

Now == NowSeconds(clock)

\* what one claim or refund attempt of an operation came to
\*   skipped       no key supplied, or the chain's timelock has not expired
\*   build_failed  the HTLC module threw while building the transaction
\*   send_failed   sendRawTransaction threw
\*   accepted      sendRawTransaction returned the txid
Attempts == {"skipped", "build_failed", "send_failed", "accepted"}

\* the txid sendRawTransaction returns for the transaction of one kind
BroadcastTxId(chain, kind) == chain \o "_" \o kind \o "_txid"

\* one entry of the list getAddressUtxos returns; the txid names the entry
Utxo(a, c) == [txid |-> a * (MaxConf + 1) + c, amount |-> a, confirmations |-> c]

UtxosOf(amounts, confs) == {Utxo(a, c) : a \in amounts, c \in confs}

\* the lists of at most MaxUtxos different entries
UtxoLists(utxos) ==
    UNION {{l \in [1..n -> utxos] : \A i, j \in 1..n : l[i] = l[j] => i = j}
             : n \in 0..MaxUtxos}

\* the replies of getAddressUtxos: a list, or the call throws
Replies(utxos) ==
    {[ok |-> TRUE, utxos |-> l] : l \in UtxoLists(utxos)}
        \cup {[ok |-> FALSE, utxos |-> << >>]}

\* every reply about an HTLC that needs `required`
AllReplies(required) == Replies(UtxosOf({required - 1, required}, 0..MaxConf))

\* the replies about an HTLC address that holds nothing or one payment of the
\* required amount, unconfirmed or confirmed; or the call throws
PaidReplies(required) ==
    {[ok |-> TRUE, utxos |-> << >>], [ok |-> FALSE, utxos |-> << >>]}
        \cup {[ok |-> TRUE, utxos |-> <<u>>] :
                 u \in UtxosOf({required}, {0, DefaultConfirmations})}

\* the confirmations a caller requires: up to one more than any entry has
RequiredConfirmations == 1..(MaxConf + 1)

----------------------------------------------------------------------------
(* The configuration module (config/index.js).  An object is a function   *)
(* from its keys; the marscoin fee is counted in ten-thousandths of a coin *)

defaultConfig ==
    [ bitcoin  |-> [ network |-> "testnet",
                     rpc |-> [ host |-> "127.0.0.1", port |-> 18332,
                               username |-> "", password |-> "" ],
                     confirmations |-> 1, timeoutDuration |-> 7200,
                     fee |-> 1000 ],
      marscoin |-> [ network |-> "testnet",
                     rpc |-> [ host |-> "127.0.0.1", port |-> 18555,
                               username |-> "", password |-> "" ],
                     confirmations |-> 1, timeoutDuration |-> 3600,
                     fee |-> 1 ],
      app      |-> [ dataDir |-> "~/.btc-mars-bridge",
                     swapDatabase |-> "swaps.json",
                     logLevel |-> "info", port |-> 3000 ] ]

\* { ...a, ...b }: the keys of both objects, each with the value b gives it
\* if b has the key and the value of a otherwise
Spread(a, b) ==
    [k \in DOMAIN a \cup DOMAIN b |-> IF k \in DOMAIN b THEN b[k] ELSE a[k]]

\* a property of an object that may lack it: undefined is Null
Prop(o, k) == IF k \in DOMAIN o THEN Some(o[k]) ELSE Null

\* loadConfig on a config.json that holds loadedConfig: the three sections
\* are spread over the defaults, one level deep
loadConfig(loadedConfig) ==
    [ bitcoin  |-> Spread(defaultConfig.bitcoin,
                          IF "bitcoin" \in DOMAIN loadedConfig
                          THEN loadedConfig.bitcoin ELSE << >>),
      marscoin |-> Spread(defaultConfig.marscoin,
                          IF "marscoin" \in DOMAIN loadedConfig
                          THEN loadedConfig.marscoin ELSE << >>),
      app      |-> Spread(defaultConfig.app,
                          IF "app" \in DOMAIN loadedConfig
                          THEN loadedConfig.app ELSE << >>) ]

\* the update of one chain's section: the section is spread first, which
\* puts the rpc object of the new section in the place of the old one, and
\* the rpc object is then spread over what is there by now
UpdateChainSection(old, new) ==
    LET section == Spread(old, new)
    IN  IF "rpc" \in DOMAIN new
        THEN [section EXCEPT !.rpc = Spread(section.rpc, new.rpc)]
        ELSE section

\* updateConfig
updateConfig(cfg, newConfig) ==
    [ bitcoin  |-> IF "bitcoin" \in DOMAIN newConfig
                   THEN UpdateChainSection(cfg.bitcoin, newConfig.bitcoin)
                   ELSE cfg.bitcoin,
      marscoin |-> IF "marscoin" \in DOMAIN newConfig
                   THEN UpdateChainSection(cfg.marscoin, newConfig.marscoin)
                   ELSE cfg.marscoin,
      app      |-> IF "app" \in DOMAIN newConfig
                   THEN Spread(cfg.app, newConfig.app)
                   ELSE cfg.app ]

\* the swaps of a command line interface that has stored none
NoSwaps == << >>

----------------------------------------------------------------------------
(* generateHashLock *)

\* the preimages crypto.randomBytes(32) can draw
Preimages == 1..2

\* SHA-256, as an injective function of the preimages of the model
Sha256(p) == p + 100

\* buf.toString('hex') and Buffer.from(str, 'hex'): the hex string of bytes,
\* and the bytes of a hex string
ToHex(bytes) == <<"hex", bytes>>
BufferFromHex(hex) == hex[2]

\* generateHashLock that returns the preimage bytes in place of their hash
generateHashLockUnhashed(p) ==
    [preimage |-> ToHex(p), hash |-> [buffer |-> p]]

\* { preimage: <hex>, hash: <Buffer> }
generateHashLock(p) ==
    [preimage |-> ToHex(p), hash |-> [buffer |-> Sha256(p)]]

\* the property `hash` of a Buffer: a Buffer has none, so it is undefined
HashPropertyOf(buf) == Null

\* Buffer.from(v): throws a TypeError when v is undefined
BufferFrom(v) ==
    IF v = Null THEN [threw |-> TRUE] ELSE [threw |-> FALSE, buffer |-> v]

----------------------------------------------------------------------------
(* initiateSwap *)

\* the timelocks the other way round: marscoin gets the double duration
TimelocksReversed(now, d) ==
    [marscoin |-> now + (d * 2), bitcoin |-> now + d]

\* the two timelocks of a swap created at `now` (seconds) with duration d
Timelocks(now, d) ==
    [marscoin |-> now + d, bitcoin |-> now + (d * 2)]

\* the swap record of a swap created at `now` with duration d
SwapRecord(now, d) ==
    [ timeouts           |-> Timelocks(now, d),
      amounts            |-> [btc |-> BtcAmount, marscoin |-> MrsAmount],
      status             |-> "initialized",
      createdAt          |-> now,
      fundingTxIds       |-> Null,
      bitcoinClaimTxId   |-> Null,
      marscoinClaimTxId  |-> Null,
      bitcoinRefundTxId  |-> Null,
      marscoinRefundTxId |-> Null,
      completedAt        |-> Null,
      refundedAt         |-> Null ]

\* initiateSwap that hands createHtlc the hash and so returns its record
initiateSwapReturning(now, d, p) ==
    [kind |-> "record", record |-> SwapRecord(now, d)]

\* initiateSwap: the hash lock is drawn and destructured into preimage and
\* hash (a Buffer), the timelocks are computed, and the argument of the first
\* createHtlc call, Buffer.from(hash.hash), is evaluated
initiateSwap(now, d, p) ==
    LET hl == generateHashLock(p)
        hashLock == BufferFrom(HashPropertyOf(hl.hash))
    IN  IF hashLock.threw
        THEN [kind |-> "threw", error |-> "TypeError"]
        ELSE [kind |-> "record", record |-> SwapRecord(now, d)]

\* the stub initiateSwap: the hash lock is drawn, the HTLCs are two fixed
\* addresses, and the timeouts are Date.now() plus a fixed offset
initiateSwapStub(ms, d, p) ==
    LET hl == generateHashLock(p)
    IN  [ kind   |-> "record",
          record |-> [ preimage     |-> hl.preimage,
                       hash         |-> ToHex(hl.hash.buffer),
                       btcHtlc      |-> [address |-> "dummy_btc_htlc_address"],
                       marscoinHtlc |->
                           [address |-> "dummy_marscoin_htlc_address"],
                       timeouts  |-> [marscoin |-> ms + StubMarscoinOffset,
                                      bitcoin  |-> ms + StubBitcoinOffset],
                       amounts   |-> [btc |-> BtcAmount, marscoin |-> MrsAmount],
                       status    |-> "initialized",
                       createdAt |-> NowSeconds(ms) ] ]

----------------------------------------------------------------------------
(* verifySwapFunding *)

\* index of the first entry of the list that holds the required amount, or 0
FirstSufficient(utxos, required) ==
    LET idx == {i \in 1..Len(utxos) : utxos[i].amount >= required}
    IN  IF idx = {} THEN 0 ELSE CHOOSE i \in idx : \A j \in idx : i <= j

\* the funding check with a catch that takes a chain whose client failed as
\* paid and confirmed
CheckFundingTrusting(reply, required) ==
    LET i == IF reply.ok THEN FirstSufficient(reply.utxos, required) ELSE 0
    IN  IF ~reply.ok
        THEN [funded |-> TRUE, confirmations |-> MaxConf, txid |-> Some(0)]
        ELSE IF i = 0
        THEN [funded |-> FALSE, confirmations |-> 0, txid |-> Null]
        ELSE [funded        |-> TRUE,
              confirmations |-> reply.utxos[i].confirmations,
              txid          |-> Some(reply.utxos[i].txid)]

\* the funding check of one chain: the loop over the reply, and the catch
CheckFunding(reply, required) ==
    LET i == IF reply.ok THEN FirstSufficient(reply.utxos, required) ELSE 0
    IN  IF i = 0
        THEN [funded |-> FALSE, confirmations |-> 0, txid |-> Null]
        ELSE [funded        |-> TRUE,
              confirmations |-> reply.utxos[i].confirmations,
              txid          |-> Some(reply.utxos[i].txid)]

\* verifySwapFunding with a status reset: the record goes back to initialized
\* when the funding is not seen
verifySwapFundingResets(s, btcReply, mrsReply, requiredBtc, requiredMrs) ==
    LET btc == CheckFunding(btcReply, s.amounts.btc)
        mrs == CheckFunding(mrsReply, s.amounts.marscoin)
        funded == /\ btc.funded /\ mrs.funded
                  /\ btc.confirmations >= requiredBtc
                  /\ mrs.confirmations >= requiredMrs
    IN  [ swap   |-> IF funded
                     THEN [s EXCEPT !.status = "funded",
                                    !.fundingTxIds =
                                        Some([bitcoin  |-> btc.txid[1],
                                              marscoin |-> mrs.txid[1]])]
                     ELSE [s EXCEPT !.status = "initialized"],
          report |-> [ funded                |-> funded,
                       btcFunded             |-> btc.funded
                                                  /\ btc.confirmations >= requiredBtc,
                       marscoinFunded        |-> mrs.funded
                                                  /\ mrs.confirmations >= requiredMrs,
                       btcConfirmations      |-> btc.confirmations,
                       marscoinConfirmations |-> mrs.confirmations,
                       btcFundingTxId        |-> btc.txid,
                       marscoinFundingTxId   |-> mrs.txid ] ]

\* verifySwapFunding that counts a funding once: on a record that already has
\* its funding txids it finds nothing new and reports the swap unfunded
verifySwapFundingOnce(s, btcReply, mrsReply, requiredBtc, requiredMrs) ==
    LET btc == CheckFunding(btcReply, s.amounts.btc)
        mrs == CheckFunding(mrsReply, s.amounts.marscoin)
        btcConfirmed == btc.confirmations >= requiredBtc
        marscoinConfirmed == mrs.confirmations >= requiredMrs
        funded == /\ btc.funded /\ mrs.funded /\ btcConfirmed /\ marscoinConfirmed
                  /\ s.fundingTxIds = Null
    IN  [ swap   |-> IF funded
                     THEN [s EXCEPT !.status = "funded",
                                    !.fundingTxIds =
                                        Some([bitcoin  |-> btc.txid[1],
                                              marscoin |-> mrs.txid[1]])]
                     ELSE s,
          report |-> [ funded                |-> funded,
                       btcFunded             |-> btc.funded /\ btcConfirmed,
                       marscoinFunded        |-> mrs.funded /\ marscoinConfirmed,
                       btcConfirmations      |-> btc.confirmations,
                       marscoinConfirmations |-> mrs.confirmations,
                       btcFundingTxId        |-> btc.txid,
                       marscoinFundingTxId   |-> mrs.txid ] ]

verifySwapFunding(s, btcReply, mrsReply, requiredBtc, requiredMrs) ==
    LET btc == CheckFunding(btcReply, s.amounts.btc)
        mrs == CheckFunding(mrsReply, s.amounts.marscoin)
        btcConfirmed == btc.confirmations >= requiredBtc
        marscoinConfirmed == mrs.confirmations >= requiredMrs
        funded == btc.funded /\ mrs.funded /\ btcConfirmed /\ marscoinConfirmed
    IN  [ swap   |-> IF funded
                     THEN [s EXCEPT !.status = "funded",
                                    !.fundingTxIds =
                                        Some([bitcoin  |-> btc.txid[1],
                                              marscoin |-> mrs.txid[1]])]
                     ELSE s,
          report |-> [ funded                |-> funded,
                       btcFunded             |-> btc.funded /\ btcConfirmed,
                       marscoinFunded        |-> mrs.funded /\ marscoinConfirmed,
                       btcConfirmations      |-> btc.confirmations,
                       marscoinConfirmations |-> mrs.confirmations,
                       btcFundingTxId        |-> btc.txid,
                       marscoinFundingTxId   |-> mrs.txid ] ]

----------------------------------------------------------------------------
(* completeSwap *)

\* the txid of an attempt: set when the broadcast was accepted, else null
TxIdOf(attempt, chain, kind) ==
    IF attempt = "accepted" THEN Some(BroadcastTxId(chain, kind)) ELSE Null

\* a field that is assigned only when the new txid is set
Assigned(old, new) == IF new # Null THEN new ELSE old

\* what the claim attempt of one chain comes to: no attempt unless the key is
\* supplied; reading swap.fundingTxIds of a record that has none throws
\* inside the try
ClaimAttempt(s, attempt) ==
    IF attempt = "skipped" THEN "skipped"
    ELSE IF s.fundingTxIds = Null THEN "build_failed"
    ELSE attempt

\* the end of completeSwap: the clock is read, and the status is set from the
\* claim txids and the status the record has then
CompleteFinish(s, completedAt, bitcoinClaimTxId, marscoinClaimTxId) ==
    [s EXCEPT
        !.status = IF bitcoinClaimTxId # Null \/ marscoinClaimTxId # Null
                   THEN "completed" ELSE @,
        !.completedAt = Some(completedAt),
        !.bitcoinClaimTxId = Assigned(@, bitcoinClaimTxId),
        !.marscoinClaimTxId = Assigned(@, marscoinClaimTxId)]

\* a call of completeSwap during which nothing else touches the record:
\* completedAt is the clock reading at its end
completeSwap(s, completedAt, btcReply, mrsReply, btcAttempt, mrsAttempt) ==
    LET v == verifySwapFunding(s, btcReply, mrsReply,
                               DefaultConfirmations, DefaultConfirmations)
        f == v.swap
        btc == ClaimAttempt(f, btcAttempt)
        mrs == ClaimAttempt(f, mrsAttempt)
        bitcoinClaimTxId == TxIdOf(btc, "bitcoin", "claim")
        marscoinClaimTxId == TxIdOf(mrs, "marscoin", "claim")
    IN  IF ~v.report.funded
        THEN [ swap |-> f, funded |-> FALSE,
               btc |-> "skipped", mrs |-> "skipped", success |-> FALSE ]
        ELSE [ swap |-> CompleteFinish(f, completedAt, bitcoinClaimTxId,
                                       marscoinClaimTxId),
               funded |-> TRUE,
               btc |-> btc, mrs |-> mrs,
               success |-> bitcoinClaimTxId # Null
                              \/ marscoinClaimTxId # Null ]

----------------------------------------------------------------------------
(* handleSwapTimeout *)

\* the timelock of a chain has expired when now is past it
MarscoinExpired(s, now) == now > s.timeouts.marscoin

\* the bitcoin timelock taken as expired with the marscoin one
BitcoinExpiredWithMarscoin(s, now) ==
    now > s.timeouts.bitcoin \/ now > s.timeouts.marscoin

BitcoinExpired(s, now) == now > s.timeouts.bitcoin

\* the refund attempt of a chain that finds a funding txid in every record
RefundAttemptUnfunded(s, expired, attempt) ==
    IF ~expired \/ attempt = "skipped" THEN "skipped" ELSE attempt

\* what the refund attempt of one chain comes to: no attempt unless the chain's
\* timelock has expired and the key is supplied; reading swap.fundingTxIds of a
\* record that has none throws inside the try
RefundAttempt(s, expired, attempt) ==
    IF ~expired \/ attempt = "skipped" THEN "skipped"
    ELSE IF s.fundingTxIds = Null THEN "build_failed"
    ELSE attempt

\* handleSwapTimeout without the early return: the record is stamped also
\* when no timelock has expired
handleSwapTimeoutStamping(s, now, refundedAt, btcAttempt, mrsAttempt) ==
    LET marscoinExpired == MarscoinExpired(s, now)
        bitcoinExpired == BitcoinExpired(s, now)
        btc == RefundAttempt(s, bitcoinExpired, btcAttempt)
        mrs == RefundAttempt(s, marscoinExpired, mrsAttempt)
        bitcoinRefundTxId == TxIdOf(btc, "bitcoin", "refund")
        marscoinRefundTxId == TxIdOf(mrs, "marscoin", "refund")
        refunded == bitcoinRefundTxId # Null \/ marscoinRefundTxId # Null
    IN  [ swap |-> [s EXCEPT
              !.status = IF refunded THEN "refunded" ELSE s.status,
              !.refundedAt = Some(refundedAt),
              !.bitcoinRefundTxId = Assigned(@, bitcoinRefundTxId),
              !.marscoinRefundTxId = Assigned(@, marscoinRefundTxId)],
          btc |-> btc, mrs |-> mrs,
          expired |-> marscoinExpired \/ bitcoinExpired,
          refunded |-> refunded ]

\* handleSwapTimeout with the status set by the expiry alone, whether or not a
\* refund was broadcast
handleSwapTimeoutOnExpiry(s, now, refundedAt, btcAttempt, mrsAttempt) ==
    LET marscoinExpired == MarscoinExpired(s, now)
        bitcoinExpired == BitcoinExpired(s, now)
        btc == RefundAttempt(s, bitcoinExpired, btcAttempt)
        mrs == RefundAttempt(s, marscoinExpired, mrsAttempt)
        bitcoinRefundTxId == TxIdOf(btc, "bitcoin", "refund")
        marscoinRefundTxId == TxIdOf(mrs, "marscoin", "refund")
        refunded == bitcoinRefundTxId # Null \/ marscoinRefundTxId # Null
    IN  IF ~marscoinExpired /\ ~bitcoinExpired
        THEN [ swap |-> s, btc |-> "skipped", mrs |-> "skipped",
               expired |-> FALSE, refunded |-> FALSE ]
        ELSE [ swap |-> [s EXCEPT
                   !.status = "refunded",
                   !.refundedAt = Some(refundedAt),
                   !.bitcoinRefundTxId = Assigned(@, bitcoinRefundTxId),
                   !.marscoinRefundTxId = Assigned(@, marscoinRefundTxId)],
               btc |-> btc, mrs |-> mrs,
               expired |-> TRUE, refunded |-> refunded ]

\* a call of handleSwapTimeout during which nothing else touches the record:
\* now is the clock reading at its start, that the expiry is decided on, and
\* refundedAt the reading at its end, after the refunds were awaited
handleSwapTimeout(s, now, refundedAt, btcAttempt, mrsAttempt) ==
    LET marscoinExpired == MarscoinExpired(s, now)
        bitcoinExpired == BitcoinExpired(s, now)
        btc == RefundAttempt(s, bitcoinExpired, btcAttempt)
        mrs == RefundAttempt(s, marscoinExpired, mrsAttempt)
        bitcoinRefundTxId == TxIdOf(btc, "bitcoin", "refund")
        marscoinRefundTxId == TxIdOf(mrs, "marscoin", "refund")
        refunded == bitcoinRefundTxId # Null \/ marscoinRefundTxId # Null
    IN  IF ~marscoinExpired /\ ~bitcoinExpired
        THEN [ swap |-> s, btc |-> "skipped", mrs |-> "skipped",
               expired |-> FALSE, refunded |-> FALSE ]
        ELSE [ swap |-> [s EXCEPT
                   !.status = IF refunded THEN "refunded" ELSE s.status,
                   !.refundedAt = Some(refundedAt),
                   !.bitcoinRefundTxId = Assigned(@, bitcoinRefundTxId),
                   !.marscoinRefundTxId = Assigned(@, marscoinRefundTxId)],
               btc |-> btc, mrs |-> mrs,
               expired |-> TRUE, refunded |-> refunded ]

----------------------------------------------------------------------------
(* The state machine.  The operations are async functions: a call runs     *)
(* until its next await, is suspended there, and runs on when the awaited  *)
(* promise settles; meanwhile the clock moves and other calls run.  A call *)
(* in progress is a frame of `pending`: the operation, the await it is     *)
(* suspended in, and the locals it holds.                                  *)

\* no step of a call taken yet
NoCall ==
    [ op |-> "none", step |-> "none", done |-> TRUE, at |-> Null,
      funded |-> FALSE, btc |-> "skipped", mrs |-> "skipped",
      args |-> << >>, report |-> << >> ]

\* The swap record is a parameter of verifySwapFunding, completeSwap and
\* handleSwapTimeout: the caller hands it in.  The model starts from the
\* record initiateSwap lays out, created at time 0 with one of the durations.
InitWith(durations) ==
    /\ clock = 0
    /\ \E d \in durations : swap = SwapRecord(NowSeconds(clock), d)
    /\ call = NoCall
    /\ returned = [kind |-> "none"]
    /\ pending = EmptyBag
    /\ config = defaultConfig
    /\ activeSwaps = NoSwaps

Init == InitWith(1..MaxD)

\* the frame of a call that has just been made: the arguments (the keys, the
\* fees and the required confirmations), the `now` of handleSwapTimeout, and
\* the locals that are filled in as the call runs
Frame(op, pc, now, btcKey, mrsKey, fees, required) ==
    [ op |-> op, pc |-> pc, now |-> now, btcKey |-> btcKey,
      mrsKey |-> mrsKey, fees |-> fees, required |-> required,
      btcReply |-> Null, funded |-> FALSE, btc |-> "skipped" ]

\* no fee supplied
NoFees == <<0, 0>>

\* the required confirmations of a call that names none
DefaultRequired == <<DefaultConfirmations, DefaultConfirmations>>

\* the attempt of a chain whose builder has been called and is awaited
Awaited == "awaited"

\* the call of frame f runs from the end of its last try block to its return:
\* the clock is read again and the record is written
Finish(s, t, f, mrs) ==
    [ swap  |-> IF f.op = "completeSwap"
                THEN CompleteFinish(s, t, TxIdOf(f.btc, "bitcoin", "claim"),
                                    TxIdOf(mrs, "marscoin", "claim"))
                ELSE handleSwapTimeout(s, f.now[1], t, f.btc, mrs).swap,
      frame |-> f, done |-> TRUE, mrs |-> mrs ]

\* what the call finds at the try block of a chain before it awaits anything
TryOf(s, f, chain) ==
    LET attempt == IF f[chain] THEN Awaited ELSE "skipped"
    IN  IF f.op = "completeSwap" THEN ClaimAttempt(s, attempt)
        ELSE IF chain = "btcKey"
        THEN RefundAttempt(s, BitcoinExpired(s, f.now[1]), attempt)
        ELSE RefundAttempt(s, MarscoinExpired(s, f.now[1]), attempt)

\* the call runs from before the marscoin try block: it passes the block by,
\* or calls the builder and is suspended in the await of its result
BeforeMarscoin(s, t, f) ==
    LET try == TryOf(s, f, "mrsKey")
    IN  IF try = Awaited
        THEN [ swap |-> s, frame |-> [f EXCEPT !.pc = "mrsBuild"],
               done |-> FALSE, mrs |-> "skipped" ]
        ELSE Finish(s, t, f, try)

\* the call runs from before the bitcoin try block
BeforeBitcoin(s, t, f) ==
    LET try == TryOf(s, f, "btcKey")
    IN  IF try = Awaited
        THEN [ swap |-> s, frame |-> [f EXCEPT !.pc = "btcBuild"],
               done |-> FALSE, mrs |-> "skipped" ]
        ELSE BeforeMarscoin(s, t, [f EXCEPT !.btc = try])

\* a call being made, that has no frame yet
NoFrame == [op |-> "none"]

\* the frames of the calls in progress: of the call whose frame was f, the
\* frame is replaced by the one of r, or dropped when the call has returned
Resumed(frames, f, r) ==
    LET before == IF f = NoFrame THEN EmptyBag ELSE SetToBag({f})
        after == IF r.done THEN EmptyBag ELSE SetToBag({r.frame})
    IN  (frames (-) before) (+) after

\* the steps `call` tells of: those in which verifySwapFunding writes the
\* record, sendRawTransaction is heard from, or the call returns
Told(step, r) == r.done \/ step \in {"mrsUtxos", "btcSend", "mrsSend"}

\* a call takes a step, from its start or from the await its frame f is
\* suspended in, that comes to r: the record and the frames are updated
Took(f, step, r, args, report) ==
    /\ swap' = r.swap
    /\ pending' = Resumed(pending, f, r)
    /\ call' = IF Told(step, r)
               THEN [ op |-> r.frame.op, step |-> step, done |-> r.done,
                      at |-> r.frame.now, funded |-> r.frame.funded, btc |-> r.frame.btc,
                      mrs |-> r.mrs, args |-> args, report |-> report ]
               ELSE NoCall
    /\ UNCHANGED <<clock, config, activeSwaps>>

\* verifySwapFunding is called on the record: it awaits
\* btcClient.getAddressUtxos
CallVerifySwapFunding(requiredBtc, requiredMrs) ==
    /\ BagCardinality(pending) < MaxPending
    /\ Took(NoFrame, "start",
            [ swap |-> swap,
              frame |-> Frame("verifySwapFunding", "btcUtxos", Null, FALSE,
                              FALSE, NoFees, <<requiredBtc, requiredMrs>>),
              done |-> FALSE, mrs |-> "skipped" ], << >>, Null)

\* completeSwap is called on the record: it calls verifySwapFunding, which
\* awaits btcClient.getAddressUtxos
CallCompleteSwap(btcKey, mrsKey, fees) ==
    /\ BagCardinality(pending) < MaxPending
    /\ Took(NoFrame, "start",
            [ swap |-> swap,
              frame |-> Frame("completeSwap", "btcUtxos", Null, btcKey,
                              mrsKey, fees, DefaultRequired),
              done |-> FALSE, mrs |-> "skipped" ], << >>, Null)

\* handleSwapTimeout is called on the record: it reads the clock and the
\* timeouts, returns when nothing has expired, and else runs to its first
\* await
CallHandleSwapTimeout(btcKey, mrsKey, fees) ==
    LET f == Frame("handleSwapTimeout", "start", Some(Now), btcKey, mrsKey, fees,
                   DefaultRequired)
        early == handleSwapTimeout(swap, Now, Now, "skipped", "skipped")
    IN  /\ BagCardinality(pending) < MaxPending
        /\ Took(NoFrame, "start",
                IF ~early.expired
                THEN [ swap |-> early.swap, frame |-> f, done |-> TRUE,
                       mrs |-> "skipped" ]
                ELSE BeforeBitcoin(swap, Now, f), << >>, Null)

\* btcClient.getAddressUtxos replies to the call of frame f: the call runs
\* the loop over the reply and awaits marscoinClient.getAddressUtxos
BtcUtxosReply(f, reply) ==
    /\ f.pc = "btcUtxos"
    /\ Took(f, "btcUtxos",
            [ swap |-> swap,
              frame |-> [f EXCEPT !.pc = "mrsUtxos",
                                  !.btcReply = Some(reply)],
              done |-> FALSE, mrs |-> "skipped" ], << >>, Null)

\* marscoinClient.getAddressUtxos replies to the call of frame f:
\* verifySwapFunding writes the record and returns, to its caller or to the
\* completeSwap that awaits it; `keep` records the arguments of
\* verifySwapFunding and the report it returns
MrsUtxosReply(f, reply, keep) ==
    LET v == verifySwapFunding(swap, f.btcReply[1], reply,
                               f.required[1], f.required[2])
    IN  /\ f.pc = "mrsUtxos"
        /\ Took(f, "mrsUtxos",
                [ swap |-> v.swap,
                  frame |-> [f EXCEPT !.pc = "verified", !.btcReply = Null,
                                      !.funded = v.report.funded],
                  done |-> f.op = "verifySwapFunding", mrs |-> "skipped" ],
                IF keep
                THEN <<f.btcReply[1], reply, f.required[1], f.required[2]>>
                ELSE << >>,
                IF keep THEN Some(v.report) ELSE Null)

\* the call of frame f, a completeSwap, has its verifySwapFunding back: it
\* returns when the swap is not funded, and else runs to its next await
Verified(f) ==
    /\ f.pc = "verified"
    /\ Took(f, "verified",
            IF ~f.funded
            THEN [ swap |-> swap, frame |-> f, done |-> TRUE,
                   mrs |-> "skipped" ]
            ELSE BeforeBitcoin(swap, Now, f), << >>, Null)

\* the builder of the bitcoin transaction of the call of frame f returns or
\* throws: the call hands the transaction to btcClient.sendRawTransaction and
\* awaits it, or goes on after the catch
BtcBuilt(f, ok) ==
    /\ f.pc = "btcBuild"
    /\ Took(f, "btcBuild",
            IF ok
            THEN [ swap |-> swap, frame |-> [f EXCEPT !.pc = "btcSend"],
                   done |-> FALSE, mrs |-> "skipped" ]
            ELSE BeforeMarscoin(swap, Now, [f EXCEPT !.btc = "build_failed"]),
            << >>, Null)

\* btcClient.sendRawTransaction returns the txid to the call of frame f, or
\* throws
BtcSent(f, accepted) ==
    LET btc == IF accepted THEN "accepted" ELSE "send_failed"
    IN  /\ f.pc = "btcSend"
        /\ Took(f, "btcSend", BeforeMarscoin(swap, Now, [f EXCEPT !.btc = btc]),
                << >>, Null)

\* the builder of the marscoin transaction of the call of frame f returns or
\* throws
MrsBuilt(f, ok) ==
    /\ f.pc = "mrsBuild"
    /\ Took(f, "mrsBuild",
            IF ok
            THEN [ swap |-> swap, frame |-> [f EXCEPT !.pc = "mrsSend"],
                   done |-> FALSE, mrs |-> "skipped" ]
            ELSE Finish(swap, Now, f, "build_failed"), << >>, Null)

\* marscoinClient.sendRawTransaction returns the txid to the call of frame f or
\* throws: the call runs to its return
MrsSent(f, accepted) ==
        /\ f.pc = "mrsSend"
        /\ Took(f, "mrsSend",
                Finish(swap, Now, f,
                       IF accepted THEN "accepted" ELSE "send_failed"),
                << >>, Null)

\* the steps of the calls on the record, with the replies of the chain clients
\* about an HTLC address that holds nothing or one payment
StartVerifySwapFunding ==
    /\ CallVerifySwapFunding(DefaultConfirmations, DefaultConfirmations)
    /\ UNCHANGED returned

StartCompleteSwap ==
    \E btcKey \in BOOLEAN, mrsKey \in BOOLEAN :
        CallCompleteSwap(btcKey, mrsKey, NoFees) /\ UNCHANGED returned

StartHandleSwapTimeout ==
    \E btcKey \in BOOLEAN, mrsKey \in BOOLEAN :
        CallHandleSwapTimeout(btcKey, mrsKey, NoFees) /\ UNCHANGED returned

ResumeBtcUtxos ==
    \E f \in BagToSet(pending), reply \in PaidReplies(swap.amounts.btc) :
        BtcUtxosReply(f, reply) /\ UNCHANGED returned

ResumeMrsUtxos ==
    \E f \in BagToSet(pending), reply \in PaidReplies(swap.amounts.marscoin) :
        MrsUtxosReply(f, reply, FALSE) /\ UNCHANGED returned

ResumeVerified ==
    \E f \in BagToSet(pending) : Verified(f) /\ UNCHANGED returned

ResumeBtcBuild ==
    \E f \in BagToSet(pending), ok \in BOOLEAN :
        BtcBuilt(f, ok) /\ UNCHANGED returned

ResumeBtcSend ==
    \E f \in BagToSet(pending), accepted \in BOOLEAN :
        BtcSent(f, accepted) /\ UNCHANGED returned

ResumeMrsBuild ==
    \E f \in BagToSet(pending), ok \in BOOLEAN :
        MrsBuilt(f, ok) /\ UNCHANGED returned

ResumeMrsSend ==
    \E f \in BagToSet(pending), accepted \in BOOLEAN :
        MrsSent(f, accepted) /\ UNCHANGED returned

\* time passes
Tick ==
    /\ Now < MaxTime
    /\ clock' = clock + TickMs
    /\ UNCHANGED <<swap, call, returned, pending, config, activeSwaps>>

Next ==
    \/ StartVerifySwapFunding
    \/ StartCompleteSwap
    \/ StartHandleSwapTimeout
    \/ ResumeBtcUtxos
    \/ ResumeMrsUtxos
    \/ ResumeVerified
    \/ ResumeBtcBuild
    \/ ResumeBtcSend
    \/ ResumeMrsBuild
    \/ ResumeMrsSend
    \/ Tick

Spec == Init /\ [][Next]_vars

\* verifySwapFunding alone: the replies the two chain clients give and the
\* required confirmations are drawn at the start, and every call is made on
\* them, one call after the other; `returned` holds them, the report of the
\* first call that returned, and whether a call has returned again since
InitFunding ==
    /\ clock = 0
    /\ \E d \in 1..MaxD : swap = SwapRecord(NowSeconds(clock), d)
    /\ call = NoCall
    /\ \E btcReply \in AllReplies(BtcAmount),
          mrsReply \in AllReplies(MrsAmount),
          requiredBtc \in RequiredConfirmations,
          requiredMrs \in RequiredConfirmations :
            returned = [ kind |-> "replies",
                         args |-> <<btcReply, mrsReply,
                                    requiredBtc, requiredMrs>> ]
    /\ pending = EmptyBag
    /\ config = defaultConfig
    /\ activeSwaps = NoSwaps

StartVerifyAnyReply ==
    /\ pending = EmptyBag
    /\ CallVerifySwapFunding(returned.args[3], returned.args[4])
    /\ UNCHANGED returned

BtcAnyReply ==
    \E f \in BagToSet(pending) :
        BtcUtxosReply(f, returned.args[1]) /\ UNCHANGED returned

MrsAnyReply ==
    \E f \in BagToSet(pending) :
        /\ MrsUtxosReply(f, returned.args[2], TRUE)
        /\ returned' = IF returned.kind = "replies"
                       THEN [ kind |-> "verified", args |-> returned.args,
                              report |-> call'.report, again |-> FALSE ]
                       ELSE [returned EXCEPT !.again = TRUE]

NextFunding ==
    \/ StartVerifyAnyReply
    \/ BtcAnyReply
    \/ MrsAnyReply

SpecFunding == InitFunding /\ [][NextFunding]_vars

----------------------------------------------------------------------------
(* Creating swaps *)

\* the durations initiateSwap is called with: nothing checks timeoutDuration,
\* so zero and negative ones too, and the stub's own offset
Durations == ((0 - MaxNegD)..MaxD) \cup {StubMarscoinOffset}

\* the clock readings the creation of a swap starts from
StartClocks == {0, 250, 500, 750}

InitInitiate ==
    /\ clock \in StartClocks
    /\ swap = SwapRecord(0, MaxD)
    /\ call = NoCall
    /\ returned = [kind |-> "none"]
    /\ pending = EmptyBag
    /\ config = defaultConfig
    /\ activeSwaps = NoSwaps

\* the call left behind by an initiateSwap with duration d
InitiateCall(d) ==
    [NoCall EXCEPT !.op = "initiateSwap", !.args = <<d>>]

\* a call of initiateSwap
InitiateSwap ==
    \E d \in Durations, p \in Preimages :
        /\ returned' = initiateSwap(Now, d, p)
        /\ call' = InitiateCall(d)
        /\ UNCHANGED <<clock, swap, pending, config, activeSwaps>>

\* a call of the stub initiateSwap
InitiateSwapStub ==
    \E d \in Durations, p \in Preimages :
        /\ returned' = initiateSwapStub(clock, d, p)
        /\ call' = InitiateCall(d)
        /\ UNCHANGED <<clock, swap, pending, config, activeSwaps>>

NextInitiate ==
    \/ InitiateSwap
    \/ InitiateSwapStub
    \/ Tick

SpecInitiate == InitInitiate /\ [][NextInitiate]_vars

TypeOK ==
    /\ clock \in Nat
    /\ swap.status \in {"initialized", "funded", "completed", "refunded"}
    /\ call.op \in {"none", "initiateSwap", "verifySwapFunding",
                    "completeSwap", "handleSwapTimeout", "extractPreimage",
                    "refundHtlcAfterTimeout", "claimHtlcWithPreimage",
                    "createHtlc", "updateConfig", "initiateSwapFlow",
                    "completeSwapFlow", "refundExpiredSwapFlow"}

----------------------------------------------------------------------------
(* The HTLCs of a swap: createHtlc of the bitcoin and of the marscoin       *)
(* module, the latter on marscoin-lib-wrapper                               *)

\* the public keys createHtlc is given
Keys == [recipientPubKey |-> "recipient_key", refundPubKey |-> "refund_key"]

\* crypto.createHash('ripemd160') of a key, and bitcoin.crypto.hash160 of a
\* key, the RIPEMD-160 of its SHA-256: a digest is the list of the hash
\* functions applied, outermost first, and the key they were applied to
Ripemd160(key) == <<"ripemd160", key>>
Hash160(key) == <<"ripemd160", "sha256", key>>

\* bitcoinjs-lib: script.number.encode, script.compile and payments.p2sh keep
\* different inputs apart; a compiled script is its name and the items it
\* carries
BitcoinNumberEncode(n) == n
BitcoinScriptCompile(items) == <<"script", items>>
BitcoinP2sh(redeemScript) ==
    [address |-> <<"p2sh", redeemScript>>, output |-> <<"p2sh_output", redeemScript>>]

\* marscoin-lib-wrapper: number.encode keeps the low byte; script.compile and
\* payments.p2sh return the same buffer and address whatever they are given,
\* and the buffer carries none of the items
MarscoinNumberEncode(n) == n % 256
MarscoinScriptCompile(items) == <<"mock_compiled_script", << >>>>
MarscoinP2sh(redeemScript) ==
    [address |-> "mock_p2sh_address", output |-> "mock_p2sh_output"]

\* the items createHtlc of the bitcoin module hands to script.compile, the
\* opcodes left out
BitcoinRedeemItems(hashLock, timelock, keys) ==
    << hashLock, Hash160(keys.recipientPubKey),
       BitcoinNumberEncode(timelock), Hash160(keys.refundPubKey) >>

\* the items createHtlc of the marscoin module hands to script.compile
MarscoinRedeemItems(hashLock, timelock, keys) ==
    << hashLock, Ripemd160(keys.recipientPubKey),
       MarscoinNumberEncode(timelock), Ripemd160(keys.refundPubKey) >>

\* createHtlc of the bitcoin module
bitcoinCreateHtlc(hashLock, timelock, keys) ==
    LET redeemScript ==
            BitcoinScriptCompile(BitcoinRedeemItems(hashLock, timelock, keys))
        p2sh == BitcoinP2sh(redeemScript)
    IN  [ address |-> p2sh.address, redeemScript |-> redeemScript,
          p2shOutput |-> p2sh.output, locktime |-> timelock ]

\* createHtlc of the marscoin module
marscoinCreateHtlc(hashLock, timelock, keys) ==
    LET redeemScript ==
            MarscoinScriptCompile(MarscoinRedeemItems(hashLock, timelock, keys))
        p2sh == MarscoinP2sh(redeemScript)
    IN  [ address |-> p2sh.address, redeemScript |-> redeemScript,
          p2shOutput |-> p2sh.output, locktime |-> timelock ]

\* the two HTLCs of the swap whose hash lock is the hash of preimage p and
\* whose timelocks are those of record s
HtlcsOf(s, p) ==
    [ btcHtlc      |-> bitcoinCreateHtlc(Sha256(p), s.timeouts.bitcoin, Keys),
      marscoinHtlc |-> marscoinCreateHtlc(Sha256(p), s.timeouts.marscoin, Keys) ]

\* the keys of the two parties on the two chains, as initiateSwap is given them
Parties ==
    [ initiatorBtc        |-> "initiator_btc_key",
      participantBtc      |-> "participant_btc_key",
      initiatorMarscoin   |-> "initiator_marscoin_key",
      participantMarscoin |-> "participant_marscoin_key" ]

\* the items of the redeem script of an HTLC of a swap record: the hash lock,
\* the hash of the claim key, the timelock and the hash of the refund key; an
\* HTLC without a redeem script, or with one that carries no item, has none
RedeemItems(htlc) ==
    IF "redeemScript" \in DOMAIN htlc THEN htlc.redeemScript[2] ELSE << >>

HashLockOf(htlc) ==
    IF Len(RedeemItems(htlc)) = 4 THEN Some(RedeemItems(htlc)[1]) ELSE Null

ClaimKeyHashOf(htlc) ==
    IF Len(RedeemItems(htlc)) = 4 THEN Some(RedeemItems(htlc)[2]) ELSE Null

RefundKeyHashOf(htlc) ==
    IF Len(RedeemItems(htlc)) = 4 THEN Some(RedeemItems(htlc)[4]) ELSE Null

\* getAddressUtxos of a chain client: the entries of the chain's payments
\* that pay the address
getAddressUtxos(payments, address) ==
    LET paying == SelectSeq(payments, LAMBDA pay : pay.address = address)
    IN  [ok |-> TRUE, utxos |-> [i \in 1..Len(paying) |-> paying[i].utxo]]

\* the HTLCs of two swaps with different hash locks are created: those of
\* the swap of the record and those of another swap
CreateHtlcs ==
    \E p \in Preimages, q \in Preimages :
        /\ p # q
        /\ returned.kind = "none"
        /\ returned' = [ kind |-> "htlcs", mine |-> HtlcsOf(swap, p),
                         other |-> HtlcsOf(swap, q) ]
        /\ UNCHANGED <<clock, swap, call, pending, config, activeSwaps>>

\* the payments of a chain that pay the entries of the list to the address
PaymentsTo(address, utxos) ==
    [i \in 1..Len(utxos) |-> [address |-> address, utxo |-> utxos[i]]]

\* verifySwapFunding is called on the record of the first of the two swaps
StartVerifyMine ==
    \E requiredBtc \in RequiredConfirmations,
       requiredMrs \in RequiredConfirmations :
        /\ returned.kind = "htlcs"
        /\ CallVerifySwapFunding(requiredBtc, requiredMrs)
        /\ UNCHANGED returned

\* the bitcoin HTLC address of the other swap is paid, and
\* btcClient.getAddressUtxos replies to a call about the address of this swap
BtcUtxosWithOtherPaid ==
    \E f \in BagToSet(pending),
       btcUtxos \in UtxoLists(UtxosOf({swap.amounts.btc},
                                       {0, DefaultConfirmations})) :
        LET onBitcoin == PaymentsTo(returned.other.btcHtlc.address, btcUtxos)
        IN  /\ BtcUtxosReply(f, getAddressUtxos(onBitcoin,
                                    returned.mine.btcHtlc.address))
            /\ UNCHANGED returned

\* the marscoin HTLC address of the other swap is paid, and
\* marscoinClient.getAddressUtxos replies to a call about the address of this
\* swap
MrsUtxosWithOtherPaid ==
    \E f \in BagToSet(pending),
       mrsUtxos \in UtxoLists(UtxosOf({swap.amounts.marscoin - 1,
                                        swap.amounts.marscoin}, 0..MaxConf)) :
        LET onMarscoin ==
                PaymentsTo(returned.other.marscoinHtlc.address, mrsUtxos)
        IN  /\ MrsUtxosReply(f, getAddressUtxos(onMarscoin,
                                    returned.mine.marscoinHtlc.address), TRUE)
            /\ UNCHANGED returned

NextTwoSwaps ==
    \/ CreateHtlcs
    \/ StartVerifyMine
    \/ BtcUtxosWithOtherPaid
    \/ MrsUtxosWithOtherPaid

SpecTwoSwaps == Init /\ [][NextTwoSwaps]_vars

----------------------------------------------------------------------------
(* The claim and refund transactions of the two modules, and the         *)
(* extraction of the preimage from a transaction                            *)

\* the items of an input script: a data push of len bytes, or an opcode
Push(len, data) == [op |-> "push", len |-> len, data |-> data]
Opcode(name) == [op |-> name, len |-> 0, data |-> 0]

\* Buffer.isBuffer of an item of a decompiled script: opcodes are numbers
IsBuffer(item) == item.op = "push"

\* the length the extraction looks for, and the lengths of what the builders
\* push besides the preimage: a DER signature with its hash type, a
\* compressed public key, and the redeem scripts of the two modules
PreimageLength == 32
SignatureLength == 72
PublicKeyLength == 33
BitcoinRedeemScriptLength == 95
MarscoinRedeemScriptLength == 20

\* the sequence number of the input of a claim (the default of addInput of
\* bitcoinjs-lib) and of a refund, as the eight hex digits of the 32-bit
\* number; addInput of marscoin-lib-wrapper has no default and stores the
\* missing argument
SequenceFinal == "ffffffff"
SequenceRefund == "fffffffe"
SequenceUndefined == "undefined"

\* address.toOutputScript: of bitcoinjs-lib the script that pays the address,
\* of marscoin-lib-wrapper the same buffer whatever the address
BitcoinToOutputScript(address) == <<"output_script", address>>
MarscoinToOutputScript(address) == <<"mock_output_script", << >>>>

\* tx.toHex() and Transaction.fromHex of bitcoinjs-lib: the hex string of a
\* transaction, and the transaction of a hex string; fromHex throws on
\* anything that is not the hex string of a transaction
BitcoinTxToHex(tx) == <<"txhex", tx>>
BitcoinTxFromHex(hex) ==
    IF hex[1] = "txhex" THEN [ok |-> TRUE, tx |-> hex[2]] ELSE [ok |-> FALSE]

\* script.decompile of bitcoinjs-lib: the items of a script, or null for
\* bytes that are not a script
BitcoinScriptDecompile(script) ==
    IF script[1] = "script" THEN Some(script[2]) ELSE Null

\* toHex() and getId() of the Transaction of marscoin-lib-wrapper: the same
\* strings for every transaction; the class has no fromHex and the wrapper's
\* script has no decompile
MarscoinTxToHex(tx) == <<"mock_transaction_hex">>
MarscoinTxId(tx) == "mock_transaction_id"
MarscoinTxFromHex(hex) == [ok |-> FALSE]

\* the input script of a claim: signature, public key, preimage, OP_TRUE and
\* the redeem script
ClaimInputItems(signature, publicKey, preimageBuffer, redeemScript, length) ==
    << Push(SignatureLength, signature), Push(PublicKeyLength, publicKey),
       Push(PreimageLength, preimageBuffer), Opcode("OP_TRUE"),
       Push(length, redeemScript) >>

\* the input script of a refund: signature, public key, OP_FALSE and the
\* redeem script
RefundInputItems(signature, publicKey, redeemScriptBuffer, redeemLength) ==
    << Push(SignatureLength, signature), Push(PublicKeyLength, publicKey),
       Opcode("OP_FALSE"), Push(redeemLength, redeemScriptBuffer) >>

\* a transaction with one input and one output
Transaction(locktime, htlcTxId, htlcVout, sequence, script, outputScript, value) ==
    [ locktime |-> locktime,
      ins |-> << [ hash |-> <<"reversed", htlcTxId>>, index |-> htlcVout,
                   sequence |-> sequence, script |-> script ] >>,
      outs |-> << [ script |-> outputScript, value |-> value ] >> ]

\* tx.hashForSignature and keyPair.sign of bitcoinjs-lib: the signature of
\* a key over the transaction, its input scripts left out, and the redeem
\* script
BitcoinSign(privateKey, tx, redeemScriptBuffer) ==
    <<"signature", privateKey,
      [tx EXCEPT !.ins = [i \in DOMAIN tx.ins |->
                             [tx.ins[i] EXCEPT !.script = <<"empty", << >>>>]]],
      redeemScriptBuffer>>

\* tx.addOutput of bitcoinjs-lib takes an unsigned value and throws on a
\* negative one
BitcoinOutputValue(value) == value >= 0

\* tx.setInputScript(0, inputScript)
SetInputScript(tx, inputScript) == [tx EXCEPT !.ins[1].script = inputScript]

\* claimHtlcWithPreimage of the bitcoin module; signs tells whether
\* keyPair.sign(...).toDER() of the bitcoinjs-lib in use returns a signature
\* or throws
bitcoinClaimHtlcWithPreimage(params, signs) ==
    IF ~signs \/ ~BitcoinOutputValue(params.amount - params.fee)
    THEN [ok |-> FALSE]
    ELSE LET unsigned == Transaction(0, params.htlcTxId, params.htlcVout,
                                     SequenceFinal, <<"empty", << >>>>,
                                     BitcoinToOutputScript(
                                         params.destinationAddress),
                                     params.amount - params.fee)
             redeemScriptBuffer == BufferFromHex(params.redeemScript)
             inputScript ==
                 BitcoinScriptCompile(ClaimInputItems(
                     BitcoinSign(params.privateKey, unsigned,
                                 redeemScriptBuffer),
                     <<"public_key", params.privateKey>>,
                     BufferFromHex(params.preimage),
                     redeemScriptBuffer, BitcoinRedeemScriptLength))
             tx == SetInputScript(unsigned, inputScript)
         IN  [ok |-> TRUE, txHex |-> BitcoinTxToHex(tx), txId |-> <<"txid", tx>>]

\* a refund whose input script takes the claim path and pushes the preimage
\* of the parameters
bitcoinRefundRevealing(params, signs) ==
    IF ~signs \/ ~BitcoinOutputValue(params.amount - params.fee)
    THEN [ok |-> FALSE]
    ELSE LET unsigned == Transaction(params.locktime, params.htlcTxId,
                                     params.htlcVout, SequenceRefund,
                                     <<"empty", << >>>>,
                                     BitcoinToOutputScript(
                                         params.refundAddress),
                                     params.amount - params.fee)
             redeemScriptBuffer == BufferFromHex(params.redeemScript)
             inputScript ==
                 BitcoinScriptCompile(ClaimInputItems(
                     BitcoinSign(params.privateKey, unsigned,
                                 redeemScriptBuffer),
                     <<"public_key", params.privateKey>>,
                     BufferFromHex(params.preimage),
                     redeemScriptBuffer, BitcoinRedeemScriptLength))
             tx == SetInputScript(unsigned, inputScript)
         IN  [ok |-> TRUE, txHex |-> BitcoinTxToHex(tx), txId |-> <<"txid", tx>>]

\* refundHtlcAfterTimeout of the bitcoin module
bitcoinRefundHtlcAfterTimeout(params, signs) ==
    IF ~signs \/ ~BitcoinOutputValue(params.amount - params.fee)
    THEN [ok |-> FALSE]
    ELSE LET unsigned == Transaction(params.locktime, params.htlcTxId,
                                     params.htlcVout, SequenceRefund,
                                     <<"empty", << >>>>,
                                     BitcoinToOutputScript(
                                         params.refundAddress),
                                     params.amount - params.fee)
             redeemScriptBuffer == BufferFromHex(params.redeemScript)
             inputScript ==
                 BitcoinScriptCompile(RefundInputItems(
                     BitcoinSign(params.privateKey, unsigned,
                                 redeemScriptBuffer),
                     <<"public_key", params.privateKey>>,
                     redeemScriptBuffer, BitcoinRedeemScriptLength))
             tx == SetInputScript(unsigned, inputScript)
         IN  [ok |-> TRUE, txHex |-> BitcoinTxToHex(tx), txId |-> <<"txid", tx>>]

\* the Transaction object claimHtlcWithPreimage of the marscoin module fills,
\* on marscoin-lib-wrapper: the key pair, the signature and the compiled
\* input script are the wrapper's fixed values, and the input is added
\* without a sequence number
marscoinClaimTransaction(params) ==
    Transaction(0, params.htlcTxId, params.htlcVout, SequenceUndefined,
                MarscoinScriptCompile(ClaimInputItems(
                    "mock_signature", "mock_public_key",
                    BufferFromHex(params.preimage),
                    BufferFromHex(params.redeemScript),
                    MarscoinRedeemScriptLength)),
                MarscoinToOutputScript(params.destinationAddress),
                params.amount - params.fee)

\* claimHtlcWithPreimage of the marscoin module: what it returns is
\* tx.toHex() and tx.getId() of the wrapper, the same two strings whatever
\* the Transaction object holds
marscoinClaimHtlcWithPreimage(params) ==
    LET tx == marscoinClaimTransaction(params)
    IN  [ok |-> TRUE, txHex |-> MarscoinTxToHex(tx), txId |-> MarscoinTxId(tx)]

\* the Transaction object refundHtlcAfterTimeout of the marscoin module fills
marscoinRefundTransaction(params) ==
    Transaction(params.locktime, params.htlcTxId, params.htlcVout,
                SequenceRefund,
                MarscoinScriptCompile(RefundInputItems(
                    "mock_signature", "mock_public_key",
                    BufferFromHex(params.redeemScript),
                    MarscoinRedeemScriptLength)),
                MarscoinToOutputScript(params.refundAddress),
                params.amount - params.fee)

\* refundHtlcAfterTimeout of the marscoin module: the wrapper's two strings
marscoinRefundHtlcAfterTimeout(params) ==
    LET tx == marscoinRefundTransaction(params)
    IN  [ok |-> TRUE, txHex |-> MarscoinTxToHex(tx), txId |-> MarscoinTxId(tx)]

----------------------------------------------------------------------------
(* extractPreimageFromBitcoinTx and extractPreimageFromMarscoinTx          *)

\* the replies of getRawTransaction for a transaction whose hex string is
\* txHex: the hex string, an error, or the object the command line's
\* clients answer with
RawReplies == {"hex", "throws", "object"}
getRawTransaction(reply, txHex) ==
    CASE reply = "hex"    -> [ok |-> TRUE, hex |-> txHex]
      [] reply = "object" -> [ok |-> TRUE, hex |-> <<"object">>]
      [] OTHER            -> [ok |-> FALSE]

\* the scan with the hash of the item left unchecked
FirstMatchAnyHash(inputScript, expectedHash) ==
    LET matches == { j \in 1..Len(inputScript) :
                        /\ IsBuffer(inputScript[j])
                        /\ inputScript[j].len = PreimageLength }
    IN  IF matches = {} THEN 0
        ELSE CHOOSE j \in matches : \A k \in matches : j <= k

\* the first item of a decompiled script that is a buffer of 32 bytes whose
\* SHA-256 is the expected hash: its position, 0 when there is none
FirstMatch(inputScript, expectedHash) ==
    LET matches == { j \in 1..Len(inputScript) :
                        /\ IsBuffer(inputScript[j])
                        /\ inputScript[j].len = PreimageLength
                        /\ Sha256(inputScript[j].data) = expectedHash }
    IN  IF matches = {} THEN 0
        ELSE CHOOSE j \in matches : \A k \in matches : j <= k

\* the loop over the inputs from input i on: the hex string of the first
\* match, null after the last input; a script that does not decompile makes
\* the inner loop throw, which the catch turns into null
RECURSIVE ScanInputs(_, _, _)
ScanInputs(ins, i, expectedHash) ==
    IF i > Len(ins) THEN Null
    ELSE LET inputScript == BitcoinScriptDecompile(ins[i].script)
         IN  IF inputScript = Null THEN Null
             ELSE LET j == FirstMatch(inputScript[1], expectedHash)
                  IN  IF j # 0 THEN Some(ToHex(inputScript[1][j].data))
                      ELSE ScanInputs(ins, i + 1, expectedHash)

\* extractPreimageFromBitcoinTx, given the reply of getRawTransaction: every
\* error is caught and null returned
extractPreimageFromBitcoinTx(reply, expectedHash) ==
    IF ~reply.ok THEN Null
    ELSE LET parsed == BitcoinTxFromHex(reply.hex)
         IN  IF ~parsed.ok THEN Null
             ELSE ScanInputs(parsed.tx.ins, 1, expectedHash)

\* extractPreimageFromMarscoinTx: marscoin.Transaction.fromHex is not a
\* function of the wrapper, so the call throws and null is returned
extractPreimageFromMarscoinTx(reply, expectedHash) ==
    IF ~reply.ok THEN Null
    ELSE LET parsed == MarscoinTxFromHex(reply.hex)
         IN  IF ~parsed.ok THEN Null
             ELSE ScanInputs(parsed.tx.ins, 1, expectedHash)

\* extractPreimageFromBitcoinTx of the stub bitcoin module
extractPreimageFromBitcoinTxStub(reply, expectedHash) == Null

\* the two modules with builders and an extraction
Modules == {"bitcoin", "marscoin"}

ClaimOf(module, params, signs) ==
    IF module = "bitcoin" THEN bitcoinClaimHtlcWithPreimage(params, signs)
    ELSE marscoinClaimHtlcWithPreimage(params)

RefundOf(module, params, signs) ==
    IF module = "bitcoin" THEN bitcoinRefundHtlcAfterTimeout(params, signs)
    ELSE marscoinRefundHtlcAfterTimeout(params)

ExtractOf(module, reply, expectedHash) ==
    IF module = "bitcoin" THEN extractPreimageFromBitcoinTx(reply, expectedHash)
    ELSE extractPreimageFromMarscoinTx(reply, expectedHash)

\* the redeem script of the HTLC of a module for the hash lock of preimage p
RedeemScriptOf(module, p) ==
    IF module = "bitcoin" THEN HtlcsOf(swap, p).btcHtlc.redeemScript
    ELSE HtlcsOf(swap, p).marscoinHtlc.redeemScript

\* the fees the builders are given
Fees == {0, 1}

\* the parameters of a claim or a refund of the HTLC locked to the hash of
\* preimage p
BuilderParams(module, p, preimage, fee) ==
    [ htlcTxId |-> "funding_txid", htlcVout |-> 0,
      redeemScript |-> ToHex(RedeemScriptOf(module, p)),
      preimage |-> ToHex(preimage), privateKey |-> "private_key",
      destinationAddress |-> "destination_address",
      refundAddress |-> "refund_address",
      amount |-> BtcAmount, fee |-> fee,
      locktime |-> swap.timeouts.bitcoin ]

\* transactions as a chain can hold them: at most MaxIns inputs, each with
\* a script of at most MaxItems items or with bytes that are no script
MaxIns == 2
MaxItems == 1

ScriptItems ==
    {Push(PreimageLength, p) : p \in Preimages}
        \cup {Push(PublicKeyLength, 1), Opcode("OP_TRUE")}

InputScripts ==
    {BitcoinScriptCompile(items) :
        items \in UNION {[1..n -> ScriptItems] : n \in 0..MaxItems}}
        \cup {<<"not_a_script", << >>>>}

Input(script) ==
    [ hash |-> <<"reversed", "funding_txid">>, index |-> 0,
      sequence |-> SequenceFinal, script |-> script ]

Transactions ==
    { [ locktime |-> 0, ins |-> [i \in DOMAIN scripts |-> Input(scripts[i])],
        outs |-> << >> ] :
        scripts \in UNION {[1..n -> InputScripts] : n \in 0..MaxIns} }

----------------------------------------------------------------------------
(* Extractions: a transaction is built or found on the chain, fetched by  *)
(* its txid, and searched for the preimage of an expected hash              *)

ExtractCall == [NoCall EXCEPT !.op = "extractPreimage"]

\* what an extraction leaves behind: the module, where the transaction came
\* from, the preimage it was built with (0 when it was not built by a claim),
\* the expected hash, the reply of getRawTransaction and the value returned
Extracted(module, source, preimage, expectedHash, reply, value) ==
    [ kind |-> "extracted", module |-> module, source |-> source,
      preimage |-> preimage, expected |-> expectedHash, reply |-> reply,
      value |-> value ]

\* a claim is built with preimage p and the preimage of the hash of h is
\* extracted from it
ExtractFromClaim ==
    /\ returned.kind = "none"
    /\ \E module \in Modules, p \in Preimages, h \in Preimages,
       signs \in BOOLEAN, fee \in Fees, raw \in RawReplies :
        LET claim == ClaimOf(module, BuilderParams(module, p, p, fee), signs)
            reply == getRawTransaction(raw, claim.txHex)
        IN  /\ claim.ok
            /\ returned' = Extracted(module, "claim", p, Sha256(h), reply,
                                     ExtractOf(module, reply, Sha256(h)))
            /\ call' = ExtractCall
            /\ UNCHANGED <<clock, swap, pending, config, activeSwaps>>

\* a refund of the HTLC locked to the hash of p is built and the preimage of
\* the hash of h is extracted from it
ExtractFromRefund ==
    /\ returned.kind = "none"
    /\ \E module \in Modules, p \in Preimages, h \in Preimages,
       signs \in BOOLEAN, fee \in Fees, raw \in RawReplies :
        LET refund == RefundOf(module, BuilderParams(module, p, p, fee), signs)
            reply == getRawTransaction(raw, refund.txHex)
        IN  /\ refund.ok
            /\ returned' = Extracted(module, "refund", 0, Sha256(h), reply,
                                     ExtractOf(module, reply, Sha256(h)))
            /\ call' = ExtractCall
            /\ UNCHANGED <<clock, swap, pending, config, activeSwaps>>

\* the preimage of the hash of h is extracted from a transaction of the chain
ExtractFromChain ==
    /\ returned.kind = "none"
    /\ \E module \in Modules, tx \in Transactions, h \in Preimages,
       raw \in RawReplies :
        LET reply == getRawTransaction(raw, BitcoinTxToHex(tx))
        IN  /\ returned' = Extracted(module, "chain", 0, Sha256(h), reply,
                                     ExtractOf(module, reply, Sha256(h)))
            /\ call' = ExtractCall
            /\ UNCHANGED <<clock, swap, pending, config, activeSwaps>>

\* the same with the stub bitcoin module
ExtractStub ==
    /\ returned.kind = "none"
    /\ \E tx \in Transactions, h \in Preimages, raw \in RawReplies :
        LET reply == getRawTransaction(raw, BitcoinTxToHex(tx))
        IN  /\ returned' =
                   Extracted("bitcoinStub", "chain", 0, Sha256(h), reply,
                       extractPreimageFromBitcoinTxStub(reply, Sha256(h)))
            /\ call' = ExtractCall
            /\ UNCHANGED <<clock, swap, pending, config, activeSwaps>>

\* a funded swap record as initiateSwap lays it out and verifySwapFunding
\* fills it in, with the preimage p and HTLCs locked to the hash of lock
SwapWithSecret(s, p, lock) ==
    [ preimage |-> ToHex(p), hash |-> ToHex(Sha256(lock)),
      btcHtlc |-> HtlcsOf(s, lock).btcHtlc,
      marscoinHtlc |-> HtlcsOf(s, lock).marscoinHtlc,
      addresses |-> Parties,
      fundingTxIds |->
          [ bitcoin  |-> Utxo(s.amounts.btc, DefaultConfirmations).txid,
            marscoin |-> Utxo(s.amounts.marscoin, DefaultConfirmations).txid ],
      amounts |-> s.amounts, timeouts |-> s.timeouts ]

\* the default fees of handleSwapTimeout: 1000 satoshis, and 0.001 marscoin,
\* which is one of the thousandths the marscoin builder's amounts are
\* counted in here
DefaultBtcFee == 1000
DefaultMarscoinFee == 1
MarscoinThousandths == 1000

\* the parameters handleSwapTimeout hands to refundHtlcAfterTimeout of the
\* bitcoin module; a fee of 0 is no fee supplied
BitcoinRefundParams(s, privateKey, btcFee) ==
    [ htlcTxId |-> s.fundingTxIds.bitcoin, htlcVout |-> 0,
      redeemScript |-> ToHex(s.btcHtlc.redeemScript),
      privateKey |-> privateKey,
      refundAddress |-> s.addresses.participantBtc,
      amount |-> s.amounts.btc,
      fee |-> IF btcFee = 0 THEN DefaultBtcFee ELSE btcFee,
      locktime |-> s.timeouts.bitcoin ]

\* the parameters it hands to refundHtlcAfterTimeout of the marscoin module
MarscoinRefundParams(s, privateKey, marscoinFee) ==
    [ htlcTxId |-> s.fundingTxIds.marscoin, htlcVout |-> 0,
      redeemScript |-> ToHex(s.marscoinHtlc.redeemScript),
      privateKey |-> privateKey,
      refundAddress |-> s.addresses.initiatorMarscoin,
      amount |-> s.amounts.marscoin * MarscoinThousandths,
      fee |-> IF marscoinFee = 0 THEN DefaultMarscoinFee
              ELSE marscoinFee * MarscoinThousandths,
      locktime |-> s.timeouts.marscoin ]

\* refunds built with the preimage of the record handed to a builder that
\* pushes it
RefundsRevealing(s, btcFee, marscoinFee, signs) ==
    [ bitcoin  |-> bitcoinRefundRevealing(
                       [preimage |-> s.preimage] @@
                           BitcoinRefundParams(s, "participant_btc_wif", btcFee),
                       signs),
      marscoin |-> marscoinRefundHtlcAfterTimeout(
                       MarscoinRefundParams(s, "initiator_marscoin_wif",
                                            marscoinFee)) ]

\* the refunds handleSwapTimeout builds for a record when both timelocks
\* have expired and both keys are supplied
RefundsOf(s, btcFee, marscoinFee, signs) ==
    [ bitcoin  |-> bitcoinRefundHtlcAfterTimeout(
                       BitcoinRefundParams(s, "participant_btc_wif", btcFee),
                       signs),
      marscoin |-> marscoinRefundHtlcAfterTimeout(
                       MarscoinRefundParams(s, "initiator_marscoin_wif",
                                            marscoinFee)) ]

\* the refunds of two swaps are built whose records differ in the preimage
\* alone
BuildRefunds ==
    /\ returned.kind = "none"
    /\ \E p \in Preimages, q \in Preimages, lock \in Preimages,
          btcFee \in Fees, marscoinFee \in Fees, signs \in BOOLEAN :
        /\ p # q
        /\ returned' =
               [ kind |-> "refunds", preimages |-> <<p, q>>, lock |-> lock,
                 fees |-> <<btcFee, marscoinFee>>,
                 first  |-> RefundsOf(SwapWithSecret(swap, p, lock),
                                      btcFee, marscoinFee, signs),
                 second |-> RefundsOf(SwapWithSecret(swap, q, lock),
                                      btcFee, marscoinFee, signs) ]
        /\ call' = [NoCall EXCEPT !.op = "refundHtlcAfterTimeout"]
        /\ UNCHANGED <<clock, swap, pending, config, activeSwaps>>

NextExtract ==
    \/ ExtractFromClaim
    \/ ExtractFromRefund
    \/ ExtractFromChain
    \/ ExtractStub
    \/ BuildRefunds

SpecExtract == Init /\ [][NextExtract]_vars

----------------------------------------------------------------------------
(* Spending the funding: the claims of completeSwap and the refunds of     *)
(* handleSwapTimeout as transactions, on the funding verifySwapFunding saw  *)

\* the output indices at which the HTLC output may sit in its funding
\* transaction
MaxVout == 1

\* an entry of getAddressUtxos with the output index it sits at
UtxoAt(a, c, vout) ==
    [ txid |-> Utxo(a, c).txid, amount |-> a, confirmations |-> c,
      vout |-> vout ]

\* the record of a funded swap with the preimage p and its HTLCs
FundedRecord(s, p) ==
    [SwapWithSecret(s, p, p) EXCEPT !.fundingTxIds = s.fundingTxIds[1]]

\* the parameters completeSwap hands to claimHtlcWithPreimage of the bitcoin
\* module; a fee of 0 is no fee supplied
BitcoinClaimParams(s, privateKey, btcFee) ==
    [ htlcTxId |-> s.fundingTxIds.bitcoin, htlcVout |-> 0,
      redeemScript |-> ToHex(s.btcHtlc.redeemScript),
      preimage |-> s.preimage, privateKey |-> privateKey,
      destinationAddress |-> s.addresses.initiatorBtc,
      amount |-> s.amounts.btc,
      fee |-> IF btcFee = 0 THEN DefaultBtcFee ELSE btcFee ]

\* the parameters it hands to claimHtlcWithPreimage of the marscoin module
MarscoinClaimParams(s, privateKey, marscoinFee) ==
    [ htlcTxId |-> s.fundingTxIds.marscoin, htlcVout |-> 0,
      redeemScript |-> ToHex(s.marscoinHtlc.redeemScript),
      preimage |-> s.preimage, privateKey |-> privateKey,
      destinationAddress |-> s.addresses.participantMarscoin,
      amount |-> s.amounts.marscoin * MarscoinThousandths,
      fee |-> IF marscoinFee = 0 THEN DefaultMarscoinFee
              ELSE marscoinFee * MarscoinThousandths ]

\* the claims completeSwap builds for a record when both keys are supplied
ClaimsOf(s, btcFee, marscoinFee, signs) ==
    [ bitcoin  |-> bitcoinClaimHtlcWithPreimage(
                       BitcoinClaimParams(s, "initiator_btc_wif", btcFee),
                       signs),
      marscoin |-> marscoinClaimHtlcWithPreimage(
                       MarscoinClaimParams(s, "participant_marscoin_wif",
                                           marscoinFee)) ]

\* the funding of an HTLC that needs `required`: an entry of that amount and
\* `extra` more, confirmed, at the output index vout
Funding(required, extra, vout) ==
    UtxoAt(required + extra, DefaultConfirmations, vout)

\* the two HTLCs hold their funding, and the record is that of the swap with
\* the preimage p; pre is the status the record had when the call in progress
\* was made
Funded(btcUtxo, mrsUtxo, p) ==
    [ kind |-> "funding", bitcoin |-> btcUtxo, marscoin |-> mrsUtxo,
      preimage |-> p, pre |-> "none" ]

\* nothing is paid yet and a builder may be called, or the two HTLCs are
\* funded, both with the required amount or both with one more, and both at
\* the same output index of their funding transactions
InitSpend ==
    /\ clock = 0
    /\ \E d \in 1..MaxD : swap = SwapRecord(NowSeconds(clock), d)
    /\ call = NoCall
    /\ \/ returned = [kind |-> "none"]
       \/ \E extra \in {0, 1}, vout \in 0..MaxVout, p \in Preimages :
             returned = Funded(Funding(BtcAmount, extra, vout),
                               Funding(MrsAmount, extra, vout), p)
    /\ pending = EmptyBag
    /\ config = defaultConfig
    /\ activeSwaps = NoSwaps

\* the calls on the record of the funded swap are made one after the other
OnFunding ==
    /\ returned.kind \in {"funding", "spent"}
    /\ pending = EmptyBag

\* the reply of getAddressUtxos of a chain about its funded HTLC
FundingReply(chain) == [ok |-> TRUE, utxos |-> <<returned[chain]>>]

\* the transaction the builder of a chain builds for the call of frame f:
\* a claim for completeSwap, a refund for handleSwapTimeout
TxOfCall(f, chain, signs) ==
    LET s == FundedRecord(swap, returned.preimage)
    IN  IF f.op = "completeSwap"
        THEN ClaimsOf(s, f.fees[1], f.fees[2], signs)[chain]
        ELSE RefundsOf(s, f.fees[1], f.fees[2], signs)[chain]

\* what a call that handed a transaction to sendRawTransaction leaves behind:
\* the funding, the fee of the call, the transaction and whether it was taken
Spent(f, chain, fee, tx, accepted) ==
    [ kind |-> "spent", bitcoin |-> returned.bitcoin,
      marscoin |-> returned.marscoin, preimage |-> returned.preimage,
      pre |-> returned.pre, op |-> f.op, chain |-> chain, fee |-> fee, tx |-> tx,
      accepted |-> accepted ]

\* verifySwapFunding, completeSwap with both keys and handleSwapTimeout with
\* both keys are called on the record
StartVerifyFunding ==
    /\ OnFunding
    /\ CallVerifySwapFunding(DefaultConfirmations, DefaultConfirmations)
    /\ returned' = [returned EXCEPT !.pre = swap.status]

StartCompleteFunded ==
    \E btcFee \in Fees, marscoinFee \in Fees :
        /\ OnFunding
        /\ CallCompleteSwap(TRUE, TRUE, <<btcFee, marscoinFee>>)
        /\ returned' = [returned EXCEPT !.pre = swap.status]

StartTimeoutFunded ==
    \E btcFee \in Fees, marscoinFee \in Fees :
        /\ OnFunding
        /\ CallHandleSwapTimeout(TRUE, TRUE, <<btcFee, marscoinFee>>)
        /\ returned' = [returned EXCEPT !.pre = swap.status]

\* the chain clients reply about the funded HTLCs
BtcUtxosFunded ==
    \E f \in BagToSet(pending) :
        BtcUtxosReply(f, FundingReply("bitcoin")) /\ UNCHANGED returned

MrsUtxosFunded ==
    \E f \in BagToSet(pending) :
        MrsUtxosReply(f, FundingReply("marscoin"), FALSE) /\ UNCHANGED returned

VerifiedFunded ==
    \E f \in BagToSet(pending) : Verified(f) /\ UNCHANGED returned

\* the builders build the transaction from the record, or throw
BtcBuiltFunded ==
    \E f \in BagToSet(pending), signs \in BOOLEAN :
        /\ f.pc = "btcBuild"
        /\ BtcBuilt(f, TxOfCall(f, "bitcoin", signs).ok)
        /\ UNCHANGED returned

MrsBuiltFunded ==
    \E f \in BagToSet(pending) :
        /\ f.pc = "mrsBuild"
        /\ MrsBuilt(f, TxOfCall(f, "marscoin", TRUE).ok)
        /\ UNCHANGED returned

\* sendRawTransaction takes the transaction that was built, or throws
BtcSentFunded ==
    \E f \in BagToSet(pending), accepted \in BOOLEAN :
        /\ f.pc = "btcSend"
        /\ BtcSent(f, accepted)
        /\ returned' = Spent(f, "bitcoin", f.fees[1],
                             TxOfCall(f, "bitcoin", TRUE), accepted)

MrsSentFunded ==
    \E f \in BagToSet(pending), accepted \in BOOLEAN :
        /\ f.pc = "mrsSend"
        /\ MrsSent(f, accepted)
        /\ returned' = Spent(f, "marscoin", f.fees[2],
                             TxOfCall(f, "marscoin", TRUE), accepted)

\* the amounts and fees a claim builder is called with
ClaimAmounts == {900, 1546}
ClaimFees == {500, 1000}

\* a call of claimHtlcWithPreimage of a module
BuildClaim ==
    /\ returned.kind = "none"
    /\ \E module \in Modules, p \in Preimages, amount \in ClaimAmounts,
          fee \in ClaimFees, signs \in BOOLEAN :
        /\ returned' =
               [ kind |-> "claim", module |-> module, amount |-> amount,
                 fee |-> fee,
                 built |-> ClaimOf(module,
                               [BuilderParams(module, p, p, fee)
                                   EXCEPT !.amount = amount], signs) ]
        /\ call' = [NoCall EXCEPT !.op = "claimHtlcWithPreimage"]
        /\ UNCHANGED <<clock, swap, pending, config, activeSwaps>>

\* createHtlc of a module
CreateHtlcOf(module, hashLock, timelock, keys) ==
    IF module = "bitcoin" THEN bitcoinCreateHtlc(hashLock, timelock, keys)
    ELSE marscoinCreateHtlc(hashLock, timelock, keys)

\* a call of createHtlc of a module with a timelock from 0 on
CreateHtlc ==
    /\ returned.kind = "none"
    /\ \E module \in Modules, p \in Preimages, timelock \in 0..MaxTime :
        /\ returned' =
               [ kind |-> "htlc", module |-> module, timelock |-> timelock,
                 htlc |-> Some(CreateHtlcOf(module, Sha256(p), timelock, Keys)) ]
        /\ call' = [NoCall EXCEPT !.op = "createHtlc"]
        /\ UNCHANGED <<clock, swap, pending, config, activeSwaps>>

NextSpend ==
    \/ StartVerifyFunding
    \/ StartCompleteFunded
    \/ StartTimeoutFunded
    \/ BtcUtxosFunded
    \/ MrsUtxosFunded
    \/ VerifiedFunded
    \/ BtcBuiltFunded
    \/ BtcSentFunded
    \/ MrsBuiltFunded
    \/ MrsSentFunded
    \/ BuildClaim
    \/ CreateHtlc
    \/ Tick

SpecSpend == InitSpend /\ [][NextSpend]_vars

----------------------------------------------------------------------------
(* The settings flows of the command line interface: each asks its         *)
(* questions, takes the current value for an empty answer, and hands the   *)
(* section it has put together to updateConfig                             *)

\* the config.json files loadConfig finds at the start: none, or one whose
\* rpc objects carry the credentials of the two nodes
ConfigFiles ==
    { << >>,
      [ bitcoin  |-> [ rpc |-> [ host |-> "127.0.0.1", port |-> 18332,
                                 username |-> "btc_user",
                                 password |-> "btc_pass" ] ],
        marscoin |-> [ rpc |-> [ host |-> "127.0.0.1", port |-> 18555,
                                 username |-> "mars_user",
                                 password |-> "mars_pass" ] ] ] }

\* the answers typed at the questions; "" is the empty line
NetworkAnswers == {"", "mainnet"}
HostAnswers == {"", "10.0.0.2"}
PortAnswers == {"", "8332"}
ConfirmationAnswers == {"", "6"}
DurationAnswers == {""}
FeeAnswers == {"", "2"}
FileAnswers == {"", "db.json"}
LevelAnswers == {"", "debug"}

\* parseInt(answer, 10) and parseFloat(answer) of the answers above
ParseInt(answer) ==
    CASE answer = "8332" -> 8332
      [] answer = "6" -> 6
      [] answer = "2" -> 2

\* parseFloat(answer), in ten-thousandths
ParseFloat(answer) ==
    CASE answer = "2" -> 20000

\* answer || current
OrCurrent(answer, current) == IF answer = "" THEN current ELSE answer

\* answer ? parseInt(answer, 10) : current
IntOrCurrent(answer, current) ==
    IF answer = "" THEN current ELSE ParseInt(answer)

\* the call left behind by updateConfig(newConfig)
UpdateCall(newConfig) ==
    [NoCall EXCEPT !.op = "updateConfig", !.args = <<newConfig>>]

\* the section a chain's settings flow puts together
ChainSettings(current, network, host, port, confirmations, timeoutDuration, fee) ==
    [ network         |-> OrCurrent(network, current.network),
      rpc             |-> [ host |-> OrCurrent(host, current.rpc.host),
                            port |-> IntOrCurrent(port, current.rpc.port) ],
      confirmations   |-> IntOrCurrent(confirmations, current.confirmations),
      timeoutDuration |-> IntOrCurrent(timeoutDuration, current.timeoutDuration),
      fee             |-> fee ]

\* configureBitcoinSettings
ConfigureBitcoinSettings ==
    \E network \in NetworkAnswers, host \in HostAnswers,
          port \in PortAnswers, confirmations \in ConfirmationAnswers,
          timeoutDuration \in DurationAnswers, fee \in FeeAnswers :
          LET newConfig ==
                  [ bitcoin |-> ChainSettings(config.bitcoin, network, host,
                        port, confirmations, timeoutDuration,
                        IntOrCurrent(fee, config.bitcoin.fee)) ]
          IN  /\ config' = updateConfig(config, newConfig)
              /\ call' = UpdateCall(newConfig)
              /\ UNCHANGED <<clock, swap, returned, pending, activeSwaps>>

\* configureMarscoinSettings
ConfigureMarscoinSettings ==
    \E network \in NetworkAnswers, host \in HostAnswers,
          port \in PortAnswers, confirmations \in ConfirmationAnswers,
          timeoutDuration \in DurationAnswers, fee \in FeeAnswers :
          LET newConfig ==
                  [ marscoin |-> ChainSettings(config.marscoin, network, host,
                        port, confirmations, timeoutDuration,
                        IF fee = "" THEN config.marscoin.fee
                        ELSE ParseFloat(fee)) ]
          IN  /\ config' = updateConfig(config, newConfig)
              /\ call' = UpdateCall(newConfig)
              /\ UNCHANGED <<clock, swap, returned, pending, activeSwaps>>

\* configureAppSettings
ConfigureAppSettings ==
    \E swapDatabase \in FileAnswers, logLevel \in LevelAnswers :
        LET newConfig ==
                [ app |-> [ dataDir |-> OrCurrent("", config.app.dataDir),
                            swapDatabase |->
                                OrCurrent(swapDatabase, config.app.swapDatabase),
                            logLevel |->
                                OrCurrent(logLevel, config.app.logLevel) ] ]
        IN  /\ config' = updateConfig(config, newConfig)
            /\ call' = UpdateCall(newConfig)
            /\ UNCHANGED <<clock, swap, returned, pending, activeSwaps>>

\* the configuration after loadConfig has run at the start
InitConfig ==
    /\ clock = 0
    /\ swap = SwapRecord(0, MaxD)
    /\ call = NoCall
    /\ returned = [kind |-> "none"]
    /\ pending = EmptyBag
    /\ \E file \in ConfigFiles :
           config = IF file = << >> THEN defaultConfig ELSE loadConfig(file)
    /\ activeSwaps = NoSwaps

NextConfig ==
    \/ ConfigureBitcoinSettings
    \/ ConfigureMarscoinSettings
    \/ ConfigureAppSettings

SpecConfig == InitConfig /\ [][NextConfig]_vars

----------------------------------------------------------------------------
(* The swap flows of the command line interface: the swaps it has          *)
(* initiated are kept in activeSwaps under their ids, and the flows for    *)
(* completing and refunding a swap work on the stored record alone         *)

\* the ids crypto.randomBytes(16) gives the swaps, and the ids typed at the
\* 'Enter swap ID' question, one of them the id of no swap
SwapIds == 1..MaxSwaps
TypedIds == 0..MaxSwaps

\* activeSwaps[id] = record
Stored(swaps, id, record) ==
    [i \in DOMAIN swaps \cup {id} |-> IF i = id THEN record ELSE swaps[i]]

\* the call a flow leaves behind: the id it worked on and the status the
\* stored swap had, "none" when no swap has the id
FlowCall(op, id) ==
    [NoCall EXCEPT !.op = op, !.args = <<id>>,
                   !.pre = IF id \in DOMAIN activeSwaps
                           THEN activeSwaps[id].status ELSE "none"]

\* initiateSwapFlow over the result of swapCoordinator.initiateSwap: a record
\* is stored under its id, an error is reported and nothing is stored
initiateSwapFlow(swaps, id, result) ==
    IF result.kind = "record"
    THEN Stored(swaps, id, Spread(result.record, [id |-> id]))
    ELSE swaps

\* initiateSwapFlow on the coordinator of swap-coordinator.js
InitiateSwapFlow ==
    \E id \in SwapIds \ DOMAIN activeSwaps, p \in Preimages :
        /\ activeSwaps' = initiateSwapFlow(activeSwaps, id,
               initiateSwap(Now, config.bitcoin.timeoutDuration, p))
        /\ call' = FlowCall("initiateSwapFlow", id)
        /\ UNCHANGED <<clock, swap, returned, pending, config>>

\* initiateSwapFlow on the stub coordinator
InitiateSwapFlowStub ==
    \E id \in SwapIds \ DOMAIN activeSwaps, p \in Preimages :
        /\ activeSwaps' = initiateSwapFlow(activeSwaps, id,
               initiateSwapStub(clock, config.bitcoin.timeoutDuration, p))
        /\ call' = FlowCall("initiateSwapFlow", id)
        /\ UNCHANGED <<clock, swap, returned, pending, config>>

\* completeSwapFlow: 'Swap not found' for an id of no swap; the stored swap
\* is otherwise marked completed, with the time
completeSwapFlow(swaps, swapId, now) ==
    IF swapId \notin DOMAIN swaps
    THEN swaps
    ELSE Stored(swaps, swapId,
             Spread(swaps[swapId],
                    [status |-> "completed", completedAt |-> now]))

CompleteSwapFlow ==
    \E swapId \in TypedIds :
        /\ activeSwaps' = completeSwapFlow(activeSwaps, swapId, Now)
        /\ call' = FlowCall("completeSwapFlow", swapId)
        /\ UNCHANGED <<clock, swap, returned, pending, config>>

\* refundExpiredSwapFlow: 'Swap not found' for an id of no swap; the stored
\* swap is marked refunded once one of its timelocks has expired
refundExpiredSwapFlow(swaps, swapId, now) ==
    IF swapId \notin DOMAIN swaps
    THEN swaps
    ELSE IF now > swaps[swapId].timeouts.marscoin
            \/ now > swaps[swapId].timeouts.bitcoin
    THEN Stored(swaps, swapId,
             Spread(swaps[swapId],
                    [status |-> "refunded", refundedAt |-> now]))
    ELSE swaps

RefundExpiredSwapFlow ==
    \E swapId \in TypedIds :
        /\ activeSwaps' = refundExpiredSwapFlow(activeSwaps, swapId, Now)
        /\ call' = FlowCall("refundExpiredSwapFlow", swapId)
        /\ UNCHANGED <<clock, swap, returned, pending, config>>

\* the interface is left alone until the timelocks of the swaps stored so
\* far have passed
Wait ==
    /\ Now <= MaxTime
    /\ clock' = clock + (StubBitcoinOffset + MaxTime + 1) * MsPerSecond
    /\ UNCHANGED <<swap, call, returned, pending, config, activeSwaps>>

NextCli ==
    \/ InitiateSwapFlow
    \/ InitiateSwapFlowStub
    \/ CompleteSwapFlow
    \/ RefundExpiredSwapFlow
    \/ Wait
    \/ Tick

SpecCli == Init /\ [][NextCli]_vars

----------------------------------------------------------------------------
(* The steps of the operations, told apart by the call they leave behind *)

\* the step in which a call of one of the operations returns
StepOf(ops) == clock' = clock /\ call'.op \in ops /\ call'.done

\* the step in which the verifySwapFunding of a call, made directly or by
\* completeSwap, writes the record and returns
VerifyStep == clock' = clock /\ call'.step = "mrsUtxos"

\* the step in which a call of the operation hears from sendRawTransaction
\* of a chain
SendStep(op, step) ==
    clock' = clock /\ call'.op = op /\ call'.step = step

\* the transitions the specification's status diagram allows
Allowed(from, to) ==
    \/ from = to
    \/ to = "failed"
    \/ <<from, to>> \in { <<"initialized", "funded">>,
                          <<"funded", "completed">>,
                          <<"funded", "refunded">> }

\* a reply holds an entry with the required amount and confirmations
Satisfies(reply, amount, confirmations) ==
    /\ reply.ok
    /\ \E i \in 1..Len(reply.utxos) :
          /\ reply.utxos[i].amount >= amount
          /\ reply.utxos[i].confirmations >= confirmations

----------------------------------------------------------------------------
(* Claims *)

\* C1: a swap never ends one-sided: a primary-chain (bitcoin) claim txid and
\* an alt-chain (marscoin) refund txid are never both recorded for one swap.
C1_NeverOneSided ==
    ~(swap.bitcoinClaimTxId # Null /\ swap.marscoinRefundTxId # Null)

\* C2: whenever completeSwap broadcasts the bitcoin claim, the marscoin
\* timelock has not expired yet (now is not past timeouts.marscoin).
C2_ClaimBeforeAltExpiry ==
    [][ (SendStep("completeSwap", "btcSend") /\ call'.btc = "accepted")
            => Now <= swap.timeouts.marscoin ]_vars

\* C3: in every record initiateSwap returns, whatever timeoutDuration it was
\* called with, zero and negative ones included, the bitcoin timelock is
\* strictly greater than the marscoin timelock.
C3_PrimaryAfterAlt ==
    returned.kind = "record" =>
        returned.record.timeouts.bitcoin > returned.record.timeouts.marscoin

\* C3 witness: initiateSwap called with a duration that is not positive has
\* returned a record
C3_Witness ==
    /\ returned.kind = "record"
    /\ call.op = "initiateSwap"
    /\ call.args[1] <= 0

\* C4: a record returned by initiateSwap called with duration D has
\* timeouts.marscoin = createdAt + D and timeouts.bitcoin = createdAt + 2*D,
\* in unix seconds.
C4_TimeoutsFromCreatedAt ==
    returned.kind = "record" =>
        /\ returned.record.timeouts.marscoin
              = returned.record.createdAt + call.args[1]
        /\ returned.record.timeouts.bitcoin
              = returned.record.createdAt + 2 * call.args[1]

\* C5: the status only moves initialized -> funded, funded -> completed and
\* funded -> refunded (or to failed); completed and refunded are terminal.
C5_StatusTransitions ==
    [][ Allowed(swap.status, swap'.status) ]_vars

\* C6: a swap whose status is completed has the txid of a bitcoin claim
\* recorded; a marscoin claim alone never makes it completed.
C6_CompletedHasPrimaryClaim ==
    swap.status = "completed" => swap.bitcoinClaimTxId # Null

\* C7: a handleSwapTimeout call in which a refund was accepted leaves the
\* status refunded and the txid of that refund in the record; a call in which
\* every refund failed or was skipped leaves the status as it was.
C7_RefundedOnlyOnAcceptedRefund ==
    [][ StepOf({"handleSwapTimeout"}) =>
          /\ call'.btc = "accepted" =>
                /\ swap'.status = "refunded"
                /\ swap'.bitcoinRefundTxId = Some(BroadcastTxId("bitcoin", "refund"))
          /\ call'.mrs = "accepted" =>
                /\ swap'.status = "refunded"
                /\ swap'.marscoinRefundTxId = Some(BroadcastTxId("marscoin", "refund"))
          /\ (call'.btc # "accepted" /\ call'.mrs # "accepted") =>
                /\ swap'.status = swap.status
                /\ swap'.bitcoinRefundTxId = swap.bitcoinRefundTxId
                /\ swap'.marscoinRefundTxId = swap.marscoinRefundTxId ]_vars

\* C7 witness: a call on a swap with funding txids whose marscoin refund was
\* accepted and whose bitcoin refund was not has returned and made it refunded.
C7_Witness ==
    /\ call.op = "handleSwapTimeout"
    /\ call.done
    /\ swap.fundingTxIds # Null
    /\ call.mrs = "accepted"
    /\ call.btc # "accepted"
    /\ swap.status = "refunded"
    /\ swap.marscoinRefundTxId # Null

\* C8: verifySwapFunding makes an initialized swap funded if and only if, on
\* each chain, the reply holds an entry with the required amount and the
\* required confirmations, wherever the entry stands in the list.
C8_FundedIffSomeUtxoSatisfies ==
    [][ (VerifyStep /\ swap.status = "initialized") =>
          ( swap'.status = "funded"
              <=> /\ Satisfies(call'.args[1], swap.amounts.btc, call'.args[3])
                  /\ Satisfies(call'.args[2], swap.amounts.marscoin,
                               call'.args[4]) ) ]_vars

\* C9: verifySwapFunding, called directly or from completeSwap, leaves the
\* status of a completed, refunded or failed swap as it is.
C9_VerifyKeepsTerminalStatus ==
    [][ (VerifyStep /\ swap.status \in {"completed", "refunded", "failed"})
            => swap'.status = swap.status ]_vars

\* C10: verifySwapFunding, called directly or from completeSwap on a funded
\* swap, never sets the status back to initialized.
C10_FundedNeverRegresses ==
    [][ (VerifyStep /\ swap.status = "funded")
            => swap'.status # "initialized" ]_vars

\* C10 witness: a verifySwapFunding call on a funded swap that did not see the
\* funding has left the swap funded.
C10_Witness ==
    /\ call.op = "verifySwapFunding"
    /\ call.step = "mrsUtxos"
    /\ ~call.funded
    /\ swap.status = "funded"
    /\ swap.fundingTxIds # Null

\* C11: verifySwapFunding is idempotent: a second call with the same replies of
\* the chain clients and the same required confirmations returns the same
\* funding report as the first and leaves the swap record as the first left it.
C11_VerifyIdempotent ==
    [][ ( /\ returned.kind = "verified"
          /\ StepOf({"verifySwapFunding"})
          /\ call'.args = returned.args )
            => (swap' = swap /\ call'.report = returned.report) ]_vars

\* C11 witness: a call that found both chains funded has made the swap funded
\* and recorded the funding txids, and another call with the same replies has
\* returned since.
C11_Witness ==
    /\ returned.kind = "verified"
    /\ returned.again
    /\ returned.report[1].funded
    /\ call.op = "verifySwapFunding"
    /\ call.report = returned.report
    /\ swap.status = "funded"
    /\ swap.fundingTxIds # Null

\* C12: a verifySwapFunding call in which getAddressUtxos of either chain
\* client throws leaves every field of the swap record as it was.
C12_FailedClientKeepsRecord ==
    [][ ( /\ StepOf({"verifySwapFunding"})
          /\ Len(call'.args) = 4
          /\ (~call'.args[1].ok \/ ~call'.args[2].ok) )
            => swap' = swap ]_vars

\* C12 witness: the bitcoin client threw while the marscoin client showed a
\* confirmed payment of the required amount, and the swap is as it was created.
C12_Witness ==
    /\ call.op = "verifySwapFunding"
    /\ call.done
    /\ Len(call.args) = 4
    /\ ~call.args[1].ok
    /\ Satisfies(call.args[2], swap.amounts.marscoin, call.args[4])
    /\ swap.status = "initialized"
    /\ swap.fundingTxIds = Null

\* C13: completeSwap called on a swap whose status is not funded (initialized,
\* completed, refunded or failed) reports no success and has no claim
\* transaction accepted by a chain, whatever the chain clients reply about the
\* funding.
C13_CompleteRequiresFunded ==
    [][ (StepOf({"completeSwap"}) /\ returned.pre # "funded")
            => (call'.btc # "accepted" /\ call'.mrs # "accepted") ]_vars

\* C14: a completeSwap call in which every claim that was attempted failed
\* while its transaction was built leaves every field of the swap record,
\* status and completedAt included, as it was before the call.
C14_FailedBuildKeepsRecord ==
    [][ ( /\ StepOf({"completeSwap"})
          /\ call'.funded
          /\ {call'.btc, call'.mrs} \subseteq {"skipped", "build_failed"}
          /\ "build_failed" \in {call'.btc, call'.mrs} )
            => swap' = swap ]_vars

\* C15: a swap record with completedAt set has the status completed and the
\* txid of a claim recorded.
C15_CompletedAtOnlyOnClaim ==
    swap.completedAt # Null =>
        /\ swap.status = "completed"
        /\ (swap.bitcoinClaimTxId # Null \/ swap.marscoinClaimTxId # Null)

\* C16: handleSwapTimeout sends a refund transaction of a chain only in a call
\* made when now is strictly greater than that chain's own timeout in the swap
\* record: an expired marscoin timelock alone never brings a bitcoin refund,
\* nor an expired bitcoin timelock alone a marscoin refund.
C16_RefundOnlyAfterOwnExpiry ==
    [][ StepOf({"handleSwapTimeout"}) =>
          /\ call'.btc \in {"send_failed", "accepted"}
                => call'.at[1] > swap.timeouts.bitcoin
          /\ call'.mrs \in {"send_failed", "accepted"}
                => call'.at[1] > swap.timeouts.marscoin ]_vars

\* C16 witness: a call made after the marscoin timeout and not after the
\* bitcoin timeout had the marscoin refund accepted and sent no bitcoin refund.
C16_Witness ==
    /\ call.op = "handleSwapTimeout"
    /\ call.done
    /\ call.at[1] > swap.timeouts.marscoin
    /\ ~(call.at[1] > swap.timeouts.bitcoin)
    /\ call.mrs = "accepted"
    /\ call.btc = "skipped"
    /\ swap.marscoinRefundTxId # Null
    /\ swap.bitcoinRefundTxId = Null

\* C17: completeSwap has a claim accepted on a chain only while that chain's
\* timelock has not expired: the bitcoin claim while now is not past
\* timeouts.bitcoin, the marscoin claim while now is not past
\* timeouts.marscoin.
C17_ClaimBeforeOwnExpiry ==
    [][ /\ (SendStep("completeSwap", "btcSend") /\ call'.btc = "accepted")
              => ~(Now > swap.timeouts.bitcoin)
        /\ (SendStep("completeSwap", "mrsSend") /\ call'.mrs = "accepted")
              => ~(Now > swap.timeouts.marscoin) ]_vars

\* C18: for a swap created with a positive timeoutDuration, at every time at
\* which handleSwapTimeout takes the bitcoin timelock as expired it takes the
\* marscoin timelock as expired too.
C18_AltExpiresFirst ==
    BitcoinExpired(swap, Now) => MarscoinExpired(swap, Now)

\* C18 witness: handleSwapTimeout was called at a time at which it takes both
\* timelocks as expired.
C18_Witness ==
    /\ call.op = "handleSwapTimeout"
    /\ call.done
    /\ BitcoinExpired(swap, call.at[1])
    /\ MarscoinExpired(swap, call.at[1])
    /\ swap.refundedAt # Null

\* C19: the operations on the swap record never overlap: while a call of
\* verifySwapFunding, completeSwap or handleSwapTimeout is in progress on the
\* record, suspended in a chain-client call included, no other call is in
\* progress on it.
C19_NoOverlap ==
    BagCardinality(pending) <= 1

\* C20: two swaps created with different hash locks have different HTLC
\* addresses on each chain, and a UTXO that pays an HTLC address of one swap
\* is never taken by verifySwapFunding as the funding of the other.
C20_SwapsIndependent ==
    returned.kind = "htlcs" =>
        /\ returned.mine.btcHtlc.address # returned.other.btcHtlc.address
        /\ returned.mine.marscoinHtlc.address
              # returned.other.marscoinHtlc.address
        /\ call.op = "verifySwapFunding" =>
              /\ call.report[1].btcFundingTxId = Null
              /\ call.report[1].marscoinFundingTxId = Null

\* C21: in every swap record initiateSwap returns, the hash is the SHA-256 of
\* the bytes of the preimage, both as hex strings.
C21_HashOfPreimage ==
    returned.kind = "record" =>
        returned.record.hash
            = ToHex(Sha256(BufferFromHex(returned.record.preimage)))

\* C21 witness: initiateSwap returned a record whose preimage is the second
\* preimage of the model.
C21_Witness ==
    /\ call.op = "initiateSwap"
    /\ returned.kind = "record"
    /\ returned.record.preimage = ToHex(2)
    /\ returned.record.hash = ToHex(Sha256(2))

\* C22: initiateSwap called with well-formed parameters does not fail: it
\* returns a swap record with status initialized and with no funding, claim
\* or refund txid.
C22_InitiateReturnsRecord ==
    call.op = "initiateSwap" =>
        /\ returned.kind = "record"
        /\ returned.record.status = "initialized"
        /\ \A f \in {"fundingTxIds", "bitcoinClaimTxId", "marscoinClaimTxId",
                      "bitcoinRefundTxId", "marscoinRefundTxId"} :
              f \in DOMAIN returned.record => returned.record[f] = Null

\* C23: in every swap record initiateSwap returns, the bitcoin HTLC and the
\* marscoin HTLC are locked to the same hash, and that hash is the hash of
\* the record.
C23_HtlcsLockedToRecordHash ==
    returned.kind = "record" =>
        /\ HashLockOf(returned.record.btcHtlc)
              = HashLockOf(returned.record.marscoinHtlc)
        /\ HashLockOf(returned.record.btcHtlc)
              = Some(BufferFromHex(returned.record.hash))

\* C24: in every swap record initiateSwap returns, the bitcoin HTLC pays the
\* initiator's key on a claim and the participant's key on a refund, and the
\* marscoin HTLC the participant's key on a claim and the initiator's key on
\* a refund.
C24_HtlcKeyRoles ==
    returned.kind = "record" =>
        /\ ClaimKeyHashOf(returned.record.btcHtlc)
              = Some(Hash160(Parties.initiatorBtc))
        /\ RefundKeyHashOf(returned.record.btcHtlc)
              = Some(Hash160(Parties.participantBtc))
        /\ ClaimKeyHashOf(returned.record.marscoinHtlc)
              = Some(Hash160(Parties.participantMarscoin))
        /\ RefundKeyHashOf(returned.record.marscoinHtlc)
              = Some(Hash160(Parties.initiatorMarscoin))

\* C25: on both chains, the key hashes of the redeem script createHtlc
\* builds, those that follow OP_DUP OP_HASH160, are the HASH160, the
\* RIPEMD-160 of the SHA-256, of the claim key and of the refund key: in
\* the items createHtlc hands to script.compile and in the script it returns.
C25_KeyHashesAreHash160 ==
    returned.kind = "htlcs" =>
        /\ ClaimKeyHashOf(returned.mine.btcHtlc)
              = Some(Hash160(Keys.recipientPubKey))
        /\ RefundKeyHashOf(returned.mine.btcHtlc)
              = Some(Hash160(Keys.refundPubKey))
        /\ ClaimKeyHashOf(returned.mine.marscoinHtlc)
              = Some(Hash160(Keys.recipientPubKey))
        /\ RefundKeyHashOf(returned.mine.marscoinHtlc)
              = Some(Hash160(Keys.refundPubKey))
        /\ \A p \in Preimages :
              LET items == MarscoinRedeemItems(Sha256(p),
                                               swap.timeouts.marscoin, Keys)
              IN  /\ items[2] = Hash160(Keys.recipientPubKey)
                  /\ items[4] = Hash160(Keys.refundPubKey)

\* C26: extraction round trip: when a claim built with preimage p by the claim
\* builder of either chain is fetched and the preimage of SHA-256(p) is
\* extracted from it, the value returned is the hex string of p
C26_ExtractionRoundTrip ==
    ( /\ returned.kind = "extracted"
      /\ returned.source = "claim"
      /\ returned.reply.ok
      /\ returned.reply.hex # <<"object">>
      /\ returned.expected = Sha256(returned.preimage) )
        => returned.value = Some(ToHex(returned.preimage))

\* C27: when a refund built by the refund builder of either chain is fetched
\* and the preimage of any expected hash is extracted from it, the value
\* returned is null
C27_RefundHoldsNoPreimage ==
    (returned.kind = "extracted" /\ returned.source = "refund")
        => returned.value = Null

\* a bitcoin refund was built and fetched, its inputs were scanned for the
\* preimage of the hash its HTLC is locked to, and null was returned
C27_Witness ==
    /\ returned.kind = "extracted"
    /\ returned.source = "refund"
    /\ returned.module = "bitcoin"
    /\ returned.reply.ok
    /\ BitcoinTxFromHex(returned.reply.hex).ok
    /\ Len(BitcoinTxFromHex(returned.reply.hex).tx.ins) = 1
    /\ returned.value = Null

\* the items of the inputs of the transaction an extraction fetched, as
\* << input, position, item >>, when the transaction could be read
FetchedItems ==
    IF returned.reply.ok /\ BitcoinTxFromHex(returned.reply.hex).ok
    THEN LET ins == BitcoinTxFromHex(returned.reply.hex).tx.ins
             read == { i \in 1..Len(ins) :
                          BitcoinScriptDecompile(ins[i].script) # Null }
         IN  UNION { { <<i, j>> : j \in 1..Len(
                           BitcoinScriptDecompile(ins[i].script)[1]) } :
                     i \in read }
    ELSE {}

\* the item at a position of the fetched transaction
FetchedItem(at) ==
    BitcoinScriptDecompile(
        BitcoinTxFromHex(returned.reply.hex).tx.ins[at[1]].script)[1][at[2]]

\* a position holds a data push of 32 bytes whose SHA-256 is the expected hash
Matches(at) ==
    /\ FetchedItem(at).op = "push"
    /\ FetchedItem(at).len = 32
    /\ Sha256(FetchedItem(at).data) = returned.expected

\* C28: extraction is sound: a value returned is the hex string of a data
\* push of exactly 32 bytes of an input script of the fetched transaction
\* whose SHA-256 is the expected hash, and no item before it in input order
\* is such a push; pushes of other lengths and opcodes are never returned
C28_ExtractionSound ==
    (returned.kind = "extracted" /\ returned.value # Null)
        => \E at \in FetchedItems :
              /\ Matches(at)
              /\ returned.value = Some(ToHex(FetchedItem(at).data))
              /\ \A before \in FetchedItems :
                    (before[1] < at[1]
                        \/ (before[1] = at[1] /\ before[2] < at[2]))
                        => ~Matches(before)

\* a transaction of the chain whose first input pushes 32 bytes of another
\* hash and whose second input pushes the preimage: the preimage is returned
C28_Witness ==
    /\ returned.kind = "extracted"
    /\ returned.source = "chain"
    /\ returned.module = "bitcoin"
    /\ returned.value = Some(ToHex(1))
    /\ returned.expected = Sha256(1)
    /\ <<1, 1>> \in FetchedItems
    /\ FetchedItem(<<1, 1>>) = Push(32, 2)
    /\ <<2, 1>> \in FetchedItems
    /\ FetchedItem(<<2, 1>>) = Push(32, 1)

\* C29: extraction distinguishes failure from absence: when the transaction
\* cannot be fetched or cannot be read, the value returned is not the null
\* that a well-formed transaction without the preimage yields
C29_FailureIsNotAbsence ==
    ( /\ returned.kind = "extracted"
      /\ returned.module # "bitcoinStub"
      /\ (~returned.reply.ok \/ ~BitcoinTxFromHex(returned.reply.hex).ok) )
        => returned.value # Null

\* C30: no preimage leak on refund: the refund transactions of the two chains
\* built for two swap records that differ in the preimage alone are the same
C30_RefundIndependentOfPreimage ==
    returned.kind = "refunds" =>
        /\ returned.first.bitcoin = returned.second.bitcoin
        /\ returned.first.marscoin = returned.second.marscoin

\* the bitcoin refunds of two records with different preimages were built
C30_Witness ==
    /\ returned.kind = "refunds"
    /\ returned.preimages[1] # returned.preimages[2]
    /\ returned.first.bitcoin.ok
    /\ returned.second.bitcoin.ok
    /\ returned.first.bitcoin.txHex = returned.second.bitcoin.txHex

\* C31: a claim builder called with a fee that is not below the input value,
\* or that leaves less than the dust threshold of 546, fails and produces no
\* transaction
C31_ClaimUnderfundedFails ==
    ( /\ returned.kind = "claim"
      /\ \/ returned.fee >= returned.amount
         \/ returned.amount - returned.fee < 546 )
        => ~returned.built.ok

\* the transaction a builder returned and the coordinator hands to
\* sendRawTransaction: the one the hex string txHex reads back as; the fixed
\* string of marscoin-lib-wrapper reads back as none
Built(built) == built.ok /\ BitcoinTxFromHex(built.txHex).ok
TxOf(built) == BitcoinTxFromHex(built.txHex).tx

\* the fee a call charges when it is given fee, 0 being no fee supplied
FeeCharged(fee, default) == IF fee = 0 THEN default ELSE fee

\* C32: a claim or refund that completeSwap or handleSwapTimeout broadcast
\* has a single output that pays the value of the funding entry seen by
\* verifySwapFunding minus the fee, also when the entry holds more than the
\* amount of the swap
C32_SpendsFundingInFull ==
    (returned.kind = "spent" /\ returned.accepted) =>
        /\ Built(returned.tx)
        /\ Len(TxOf(returned.tx).outs) = 1
        /\ TxOf(returned.tx).outs[1].value =
               IF returned.chain = "bitcoin"
               THEN returned.bitcoin.amount - FeeCharged(returned.fee, 1000)
               ELSE returned.marscoin.amount * 1000
                        - FeeCharged(returned.fee * 1000, 1)

\* C33: a claim or refund that completeSwap or handleSwapTimeout broadcast
\* spends the txid and output index of the funding entry that verifySwapFunding
\* saw, at whatever index the HTLC output sits
C33_SpendsFundingOutpoint ==
    (returned.kind = "spent" /\ returned.accepted) =>
        /\ Built(returned.tx)
        /\ TxOf(returned.tx).ins[1].hash =
               <<"reversed", returned[returned.chain].txid>>
        /\ TxOf(returned.tx).ins[1].index = returned[returned.chain].vout

\* C34: a refund that the refund builder of either module returned and
\* handleSwapTimeout handed to sendRawTransaction is a transaction that has
\* the timelock of the HTLC it spends as its nLockTime and exactly one input,
\* whose sequence is 0xFFFFFFFE
C34_RefundLocktimeEnforced ==
    (returned.kind = "spent" /\ returned.op = "handleSwapTimeout") =>
        /\ Built(returned.tx)
        /\ TxOf(returned.tx).locktime =
               IF returned.chain = "bitcoin"
               THEN HtlcsOf(swap, 1).btcHtlc.locktime
               ELSE HtlcsOf(swap, 1).marscoinHtlc.locktime
        /\ Len(TxOf(returned.tx).ins) = 1
        /\ TxOf(returned.tx).ins[1].sequence = "fffffffe"

\* C35: createHtlc of either module rejects a timelock of zero: it returns
\* no HTLC descriptor
C35_ZeroTimelockRejected ==
    (returned.kind = "htlc" /\ returned.timelock = 0) => returned.htlc = Null

\* C36: a handleSwapTimeout call made while neither timelock has expired
\* sends nothing and leaves every field of the swap record as it was
C36_NoExpiryNoEffect ==
    [][ ( /\ StepOf({"handleSwapTimeout"})
          /\ ~(call'.at[1] > swap.timeouts.marscoin)
          /\ ~(call'.at[1] > swap.timeouts.bitcoin) ) =>
          /\ swap' = swap
          /\ call'.btc = "skipped"
          /\ call'.mrs = "skipped" ]_vars

\* handleSwapTimeout was called on a funded swap before either timelock
\* expired, and the record bears no trace of it
C36_Witness ==
    /\ call.op = "handleSwapTimeout"
    /\ call.done
    /\ ~(call.at[1] > swap.timeouts.marscoin)
    /\ ~(call.at[1] > swap.timeouts.bitcoin)
    /\ swap.status = "funded"
    /\ swap.refundedAt = Null

\* C37: refundedAt is set only when a refund was broadcast: a record with
\* refundedAt set has the status refunded and a refund txid
C37_RefundedAtMeansRefunded ==
    swap.refundedAt # Null =>
        /\ swap.status = "refunded"
        /\ (swap.bitcoinRefundTxId # Null \/ swap.marscoinRefundTxId # Null)

\* C38: a handleSwapTimeout call on a record without funding txids has no
\* refund accepted and leaves the status as it was, whatever has expired and
\* whichever keys are supplied; and no step takes a swap from initialized to
\* refunded
C38_NoRefundBeforeFunding ==
    [][ /\ (StepOf({"handleSwapTimeout"}) /\ swap.fundingTxIds = Null) =>
              /\ call'.btc \notin {"send_failed", "accepted"}
              /\ call'.mrs \notin {"send_failed", "accepted"}
              /\ swap'.status = swap.status
        /\ swap.status = "initialized" => swap'.status # "refunded" ]_vars

\* handleSwapTimeout was called with both keys on a swap that was never
\* funded, after both timelocks had expired: both builds failed and the swap
\* is still initialized
C38_Witness ==
    /\ call.op = "handleSwapTimeout"
    /\ call.done
    /\ swap.fundingTxIds = Null
    /\ swap.status = "initialized"
    /\ swap.refundedAt # Null
    /\ call.btc = "build_failed"
    /\ call.mrs = "build_failed"

\* C39: updateConfig merges deeply: after an update whose bitcoin or marscoin
\* section carries an rpc object, every rpc field the new object does not
\* name has the value it had before
C39_UpdateKeepsUnnamedRpcFields ==
    [][ StepOf({"updateConfig"}) =>
          \A c \in {"bitcoin", "marscoin"} :
              ( /\ c \in DOMAIN call'.args[1]
                /\ "rpc" \in DOMAIN call'.args[1][c] ) =>
                  \A k \in DOMAIN config[c].rpc \ DOMAIN call'.args[1][c].rpc :
                      Prop(config'[c].rpc, k) = Some(config[c].rpc[k]) ]_vars

\* C40: the 'Complete swap' flow of the command line interface marks a
\* stored swap completed only if the swap is funded (and so not refunded)
C40_CompletesFundedOnly ==
    [][ ( /\ StepOf({"completeSwapFlow"})
          /\ call'.args[1] \in DOMAIN activeSwaps'
          /\ activeSwaps' # activeSwaps
          /\ activeSwaps'[call'.args[1]].status = "completed" ) =>
            /\ call'.args[1] \in DOMAIN activeSwaps
            /\ activeSwaps[call'.args[1]].status = "funded" ]_vars

====
